---- MODULE Spec2Model ----
(***************************************************************************)
(* Model of mcp-calendar: the credential resolver (gcalClient: the cached  *)
(* client handle and default calendar id), the error taxonomy              *)
(* (utils/errors.ts) and the five operation handlers (tools/*.ts), each    *)
(* handler split at its awaits: the synchronous prefix, the completion of  *)
(* the authentication handshake, and the completion of each provider call. *)
(***************************************************************************)
EXTENDS Integers, Sequences, FiniteSets, TLC

VARIABLES
  env,               \* process.env, the configuration surface
  calendarClient,    \* the module-level cached handle, Null when not set
  defaultCalendarId, \* the module-level default calendar id
  events,            \* the provider's events: the resource, or its absence, for
                     \* every <<calendarId, eventId>>
  tasks,             \* the handler invocations, one record per slot
  returned,          \* history: the handle the first resolve completed since the last
                     \* reset returned, Null when none has completed
  quiet,             \* history: the last step of the resolver was a reset with no
                     \* resolve in flight
  probe,             \* the last direct call of resolveCalendarId or parseGoogleError:
                     \* argument and result
  ledger,            \* history: for every event a createEvent returned, the params
                     \* it was given, and whether the event was written or deleted since
  http,              \* the last response the REST server sent
  toolResult         \* what the last tool callback to end returned

vars == <<env, calendarClient, defaultCalendarId, events, tasks, returned, quiet, probe, ledger, http, toolResult>>

-----------------------------------------------------------------------------
(* Bounds *)
MaxTasks == 2

TaskIds == 1..MaxTasks

-----------------------------------------------------------------------------
(* JavaScript values *)
Undefined == "<undefined>"
JsNull == "<null>"
Null == 0     \* calendarClient = null; handles are the positive integers

\* JS truthiness of a string-or-undefined value.
Truthy(v) == v \notin {Undefined, JsNull, ""}
\* JS a || b
OrElse(a, b) == IF Truthy(a) THEN a ELSE b

RECURSIVE join(_, _)
join(seq, sep) ==
  IF seq = <<>> THEN ""
  ELSE IF Len(seq) = 1 THEN Head(seq)
  ELSE Head(seq) \o sep \o join(Tail(seq), sep)

-----------------------------------------------------------------------------
(* Errors: MCPCalendarError and the raw values the SDK and runtime throw.   *)
(* Message literals are written without their accents.                    *)
NoDetails == [none |-> TRUE]
NoResponse == [none |-> TRUE]
NoData == [none |-> TRUE]

ErrorTypes == {"auth_error", "validation_error", "google_api_error",
               "not_found_error", "unknown_error"}

MCPCalendarError(type, message, details) ==
  [cls |-> "MCPCalendarError", type |-> type, message |-> message,
   details |-> details, response |-> NoResponse]

createAuthError(message, details) == MCPCalendarError("auth_error", message, details)
createValidationError(message, details) == MCPCalendarError("validation_error", message, details)
createGoogleApiError(message, details) == MCPCalendarError("google_api_error", message, details)
createNotFoundError(message, details) == MCPCalendarError("not_found_error", message, details)

\* A raw Error object (Error, SyntaxError, GaxiosError): message, optional response.
RawError(cls, message, response) ==
  [cls |-> cls, type |-> Undefined, message |-> message,
   details |-> NoDetails, response |-> response]

GaxiosError(status, message, data) ==
  RawError("GaxiosError", message, [status |-> status, data |-> data])

ErrorData(message) == [error |-> [isObject |-> TRUE, message |-> message]]

\* A thrown value that is not an object (typeof error !== 'object').
ThrownString(value) ==
  [cls |-> "string", type |-> Undefined, message |-> Undefined,
   details |-> NoDetails, response |-> NoResponse, value |-> value]

\* A response property that is no object (a string, a number).
PrimitiveResponse(value) == [primitive |-> value]
\* A response object that carries no status.
ResponseWithoutStatus(data) == [data |-> data]

IsMCPCalendarError(error) == error.cls = "MCPCalendarError"
\* error instanceof Error
IsError(error) ==
  error.cls \in {"MCPCalendarError", "Error", "SyntaxError", "TypeError", "GaxiosError"}
\* typeof error === 'object' && error !== null
IsObject(error) == error.cls # "string"
\* 'response' in err && typeof err.response === 'object' && err.response !== null
HasResponseObject(error) == "data" \in DOMAIN error.response
\* response.status, and response.status === code
StatusOf(response) == IF "status" \in DOMAIN response THEN response.status ELSE Undefined
HasStatus(response, code) == "status" \in DOMAIN response /\ response.status = code
\* String(error)
String(error) ==
  IF error.cls = "string" THEN error.value
  ELSE IF IsError(error) THEN
    (IF IsMCPCalendarError(error) THEN "Error" ELSE error.cls) \o ": " \o error.message
  ELSE "[object Object]"

\* The branch of parseGoogleError for an error that carries a response object.
parseResponseError(error) ==
  LET response == error.response
      status == StatusOf(response)
      data == response.data
  IN IF HasStatus(response, 401) \/ HasStatus(response, 403) THEN
       createAuthError("Error de autenticacion con Google Calendar. Verifica tus credenciales.",
                       [status |-> status, data |-> data])
     ELSE IF HasStatus(response, 404) THEN
       createNotFoundError("El recurso solicitado no existe en Google Calendar.",
                           [status |-> status, data |-> data])
     ELSE
       LET message ==
             IF data # NoData /\ data.error.isObject
             THEN OrElse(data.error.message, "Error de Google API")
             ELSE "Error de Google API"
       IN createGoogleApiError(message, [status |-> status, data |-> data])

\* Mutant of parseGoogleError: a value that is no MCPCalendarError and matches
\* no response rule is passed through as it is.
parseGoogleErrorPassThrough(error) ==
  IF IsMCPCalendarError(error) THEN error
  ELSE IF IsObject(error) /\ HasResponseObject(error)
          /\ (HasStatus(error.response, 401) \/ HasStatus(error.response, 403))
    THEN parseResponseError(error)
  ELSE error

\* Mutant of parseGoogleError: the message rule is tried before the response
\* rules.
parseGoogleErrorMessageFirst(error) ==
  IF IsMCPCalendarError(error) THEN error
  ELSE IF IsObject(error) /\ error.message # Undefined THEN
    createGoogleApiError(error.message, NoDetails)
  ELSE IF IsObject(error) /\ HasResponseObject(error) THEN parseResponseError(error)
  ELSE
    MCPCalendarError("unknown_error", "Ha ocurrido un error desconocido",
                     [originalError |-> String(error)])

\* Mutant of parseGoogleError: an MCPCalendarError is normalized like any
\* other Error.
parseGoogleErrorRewraps(error) ==
  IF IsObject(error) /\ HasResponseObject(error) THEN parseResponseError(error)
  ELSE IF IsObject(error) /\ error.message # Undefined THEN
    createGoogleApiError(error.message, NoDetails)
  ELSE
    MCPCalendarError("unknown_error", "Ha ocurrido un error desconocido",
                     [originalError |-> String(error)])

parseGoogleError(error) ==
  IF IsMCPCalendarError(error) THEN error
  ELSE IF IsObject(error) /\ HasResponseObject(error) THEN parseResponseError(error)
  ELSE IF IsObject(error) /\ error.message # Undefined THEN
    createGoogleApiError(error.message, NoDetails)
  ELSE
    MCPCalendarError("unknown_error", "Ha ocurrido un error desconocido",
                     [originalError |-> String(error)])

\* new Date(dateString).getTime() is not NaN, for the strings of the model.
ValidTimestamps == {"2025-01-01T10:00:00+01:00", "2025-01-01T11:00:00+01:00"}
ParsesAsDate(dateString) == dateString \in ValidTimestamps

\* The validators throw or return; here: the sequence of the errors thrown
\* (empty, or the one error).
\* Mutant of validateISODate: the detail names the field only.
validateISODateFieldOnly(dateString, fieldName) ==
  IF ~ParsesAsDate(dateString) THEN
    <<createValidationError(
        "El campo '" \o fieldName \o "' debe ser una fecha valida en formato ISO 8601",
        [field |-> fieldName])>>
  ELSE <<>>

validateISODate(dateString, fieldName) ==
  IF ~ParsesAsDate(dateString) THEN
    <<createValidationError(
        "El campo '" \o fieldName \o "' debe ser una fecha valida en formato ISO 8601",
        [field |-> fieldName, value |-> dateString])>>
  ELSE <<>>

\* Mutant of validateRequired: the empty string passes.
validateRequiredAllowsEmpty(value, fieldName) ==
  IF value = Undefined \/ value = JsNull THEN
    <<createValidationError("El campo '" \o fieldName \o "' es requerido",
                            [field |-> fieldName])>>
  ELSE <<>>

validateRequired(value, fieldName) ==
  IF value = Undefined \/ value = JsNull \/ value = "" THEN
    <<createValidationError("El campo '" \o fieldName \o "' es requerido",
                            [field |-> fieldName])>>
  ELSE <<>>

-----------------------------------------------------------------------------
(* Configuration and the file system the resolver reads *)
FileExists(path) == path \in {"bad.json", "key.json"}
ReadFile(path) == IF path = "key.json" THEN "{ok}" ELSE "{bad"
\* JSON.parse(text) returns (does not throw a SyntaxError)
JSONParses(text) == text \in {"{ok}"}

Env(keyFile, key, clientId, clientSecret, refreshToken, calId) ==
  [GOOGLE_SERVICE_ACCOUNT_KEY_FILE |-> keyFile,
   GOOGLE_SERVICE_ACCOUNT_KEY |-> key,
   GOOGLE_CLIENT_ID |-> clientId,
   GOOGLE_CLIENT_SECRET |-> clientSecret,
   GOOGLE_REFRESH_TOKEN |-> refreshToken,
   GOOGLE_CALENDAR_ID |-> calId]

KeyFileValues == {Undefined, "missing.json", "bad.json", "key.json"}
KeyValues == {Undefined, "", "{bad", "{ok}"}
OAuthValues == {Undefined, "", "v"}
CalendarIdValues == {Undefined, "", "team"}

\* Every configuration of the model.
Configs ==
  { Env(kf, k, id, sec, tok, cal) :
      kf \in KeyFileValues, k \in KeyValues, id \in OAuthValues,
      sec \in OAuthValues, tok \in OAuthValues, cal \in CalendarIdValues }

-----------------------------------------------------------------------------
(* Credential resolver: mode selection and the two client constructors *)

\* Mutant of getAuthMode: OAuth2 wins when its three values are all present.
getAuthModeOAuthFirst(e) ==
  IF Truthy(e.GOOGLE_CLIENT_ID) /\ Truthy(e.GOOGLE_CLIENT_SECRET)
       /\ Truthy(e.GOOGLE_REFRESH_TOKEN)
  THEN "oauth2"
  ELSE IF Truthy(e.GOOGLE_SERVICE_ACCOUNT_KEY_FILE) \/ Truthy(e.GOOGLE_SERVICE_ACCOUNT_KEY)
  THEN "service_account"
  ELSE "oauth2"

getAuthMode(e) ==
  IF Truthy(e.GOOGLE_SERVICE_ACCOUNT_KEY_FILE) \/ Truthy(e.GOOGLE_SERVICE_ACCOUNT_KEY)
  THEN "service_account"
  ELSE "oauth2"

\* The synchronous part of createServiceAccountClient, up to its await of
\* auth.getClient(): the sequence of the errors thrown (empty: the handshake
\* is in flight).
createServiceAccountClient(e) ==
  IF Truthy(e.GOOGLE_SERVICE_ACCOUNT_KEY_FILE) THEN
    LET keyFilePath == e.GOOGLE_SERVICE_ACCOUNT_KEY_FILE IN
    IF ~FileExists(keyFilePath) THEN
      <<createAuthError("No se encontro el archivo de Service Account: " \o keyFilePath,
                        [keyFilePath |-> keyFilePath])>>
    ELSE IF ~JSONParses(ReadFile(keyFilePath)) THEN
      <<RawError("SyntaxError", "Unexpected token in JSON", NoResponse)>>
    ELSE <<>>
  ELSE IF Truthy(e.GOOGLE_SERVICE_ACCOUNT_KEY) THEN
    IF ~JSONParses(e.GOOGLE_SERVICE_ACCOUNT_KEY) THEN
      <<RawError("SyntaxError", "Unexpected token in JSON", NoResponse)>>
    ELSE <<>>
  ELSE <<createAuthError("No se encontraron credenciales de Service Account", NoDetails)>>

\* What auth.getClient() can settle with: a client, or a raw Error of the
\* auth library (a key that lacks a field, a key the library rejects).
GetClientOutcomes ==
  { [ok |-> TRUE],
    [ok |-> FALSE,
     error |-> RawError("Error",
                 "The incoming JSON object does not contain a client_email field",
                 NoResponse)] }

\* The block of createOAuth2Client that collects the missing variables.
missingVars(e) ==
  (IF ~Truthy(e.GOOGLE_CLIENT_ID) THEN <<"GOOGLE_CLIENT_ID">> ELSE <<>>)
  \o (IF ~Truthy(e.GOOGLE_CLIENT_SECRET) THEN <<"GOOGLE_CLIENT_SECRET">> ELSE <<>>)
  \o (IF ~Truthy(e.GOOGLE_REFRESH_TOKEN) THEN <<"GOOGLE_REFRESH_TOKEN">> ELSE <<>>)

\* Mutant of createOAuth2Client: the refresh token is not checked.
createOAuth2ClientNoTokenCheck(e) ==
  LET missing ==
        (IF ~Truthy(e.GOOGLE_CLIENT_ID) THEN <<"GOOGLE_CLIENT_ID">> ELSE <<>>)
        \o (IF ~Truthy(e.GOOGLE_CLIENT_SECRET) THEN <<"GOOGLE_CLIENT_SECRET">> ELSE <<>>)
  IN IF Len(missing) > 0 THEN
       <<createAuthError("Faltan variables de entorno requeridas: " \o join(missing, ", "),
                         [missingVars |-> missing])>>
     ELSE <<>>

\* The synchronous part of createOAuth2Client, up to its await of
\* getAccessToken(): the sequence of the errors thrown.
createOAuth2Client(e) ==
  IF Len(missingVars(e)) > 0 THEN
    <<createAuthError("Faltan variables de entorno requeridas: " \o join(missingVars(e), ", "),
                      [missingVars |-> missingVars(e)])>>
  ELSE <<>>

\* error.message.includes('invalid_grant'), for the messages of the model.
IncludesInvalidGrant(message) == message \in {"invalid_grant"}

\* What oauth2Client.getAccessToken() can settle with: a token, no token, or
\* a raw error of the HTTP client (rejected grant, rejected client, no network).
GetAccessTokenOutcomes ==
  { [ok |-> TRUE, token |-> "ya29"],
    [ok |-> TRUE, token |-> JsNull],
    [ok |-> FALSE, error |-> GaxiosError(400, "invalid_grant", NoData)],
    [ok |-> FALSE, error |-> GaxiosError(401, "invalid_client", NoData)],
    [ok |-> FALSE, error |-> RawError("Error", "getaddrinfo ENOTFOUND oauth2.googleapis.com",
                                      NoResponse)] }

\* The try/catch of createOAuth2Client around getAccessToken(): the sequence
\* of the errors createOAuth2Client rejects with, for an outcome of the fetch.
accessTokenCheck(outcome) ==
  LET thrown == IF outcome.ok
                THEN IF ~Truthy(outcome.token)
                     THEN <<createAuthError("No se pudo obtener el access token", NoDetails)>>
                     ELSE <<>>
                ELSE <<outcome.error>>
  IN IF thrown = <<>> THEN <<>>
     ELSE LET error == thrown[1] IN
          IF IsError(error) /\ IncludesInvalidGrant(error.message) THEN
            <<createAuthError("El refresh token es invalido o ha expirado. Genera uno nuevo.",
                              [originalError |-> error.message])>>
          ELSE <<error>>

\* The pure rule of resolveCalendarId over its argument and the default.
resolveCalendarIdDefaultFirst(calendarId, dflt) ==
  OrElse(OrElse(dflt, calendarId), "primary")

resolveCalendarIdOf(calendarId, dflt) ==
  OrElse(OrElse(calendarId, dflt), "primary")

resolveCalendarId(calendarId) == resolveCalendarIdOf(calendarId, defaultCalendarId)

-----------------------------------------------------------------------------
(* The provider: calendars, events and the failures of a provider call *)
Calendars == {"primary", "team", "work"}
EventIds == <<"e1", "e2">>
NewEventId == "e2"
Keys == Calendars \X {EventIds[i] : i \in 1..Len(EventIds)}

T10 == "2025-01-01T10:00:00+01:00"
T11 == "2025-01-01T11:00:00+01:00"

\* An attendee list as the caller gives it (string[]), its absence, and the
\* list as a resource carries it (objects with email and responseStatus).
NoAttendees == [none |-> TRUE]
Emails(emails) == [emails |-> emails]
Items(items) == [items |-> items]
\* { dateTime, date, timeZone } of a resource, date absent when built here
EventDateTime(dateTime, timeZone) ==
  [dateTime |-> dateTime, date |-> Undefined, timeZone |-> timeZone]
AllDay(date) == [dateTime |-> Undefined, date |-> date, timeZone |-> Undefined]

Absent == [status |-> "absent"]
Cancelled == [status |-> "cancelled"]
Event(id, summary, description, location, start, end, attendees) ==
  [id |-> id, status |-> "confirmed", summary |-> summary, description |-> description,
   location |-> location, start |-> start, end |-> end, attendees |-> attendees]

InitialEvents ==
  [key \in Keys |->
     IF key = <<"primary", "e1">> THEN
       Event("e1", "Standup", Undefined, "Room 1",
             EventDateTime(T10, "Europe/Lisbon"), EventDateTime(T11, "Europe/Lisbon"),
             Items(<<[email |-> "ana@example.com", responseStatus |-> "accepted"]>>))
     ELSE IF key = <<"team", "e1">> THEN
       Event("e1", "Review", "Weekly", Undefined,
             AllDay("2025-01-02"), AllDay("2025-01-03"), NoAttendees)
     ELSE Absent]

Live(key) == key \in Keys /\ events[key].status = "confirmed"

\* What a provider call can fail with whatever the state of the calendar:
\* rejected credentials, a server error with a message, no network.
ProviderFailures ==
  { GaxiosError(401, "Invalid Credentials", ErrorData("Invalid Credentials")),
    GaxiosError(500, "Backend Error", ErrorData("Backend Error")),
    RawError("Error", "socket hang up", NoResponse) }

NotFound == GaxiosError(404, "Not Found", ErrorData("Not Found"))

-----------------------------------------------------------------------------
(* Handler invocations *)
Params(eventId, calendarId, summary, start, end, timeMin, timeMax) ==
  [eventId |-> eventId, calendarId |-> calendarId, summary |-> summary,
   start |-> start, end |-> end, timeMin |-> timeMin, timeMax |-> timeMax,
   description |-> Undefined, location |-> Undefined, timeZone |-> Undefined,
   attendees |-> NoAttendees]

NoParams == Params(Undefined, Undefined, Undefined, Undefined, Undefined, Undefined, Undefined)
NoCfg == [none |-> TRUE]
NoError == [none |-> TRUE]
NoValue == [none |-> TRUE]

\* The requests of the model, per handler: `Plain` holds one valid request per
\* handler, without a calendarId; `Requests` adds the requests with a
\* calendarId, empty or not, and the requests that fail validation.
Plain ==
  [createEvent |-> {Params(Undefined, Undefined, "S", T10, T11, Undefined, Undefined)},
   getEvent |-> {Params("e1", Undefined, Undefined, Undefined, Undefined, Undefined, Undefined)},
   listEvents |-> {Params(Undefined, Undefined, Undefined, Undefined, Undefined, T10, T11)},
   updateEvent |-> {Params("e1", Undefined, "S2", Undefined, Undefined, Undefined, Undefined)},
   deleteEvent |-> {Params("e1", Undefined, Undefined, Undefined, Undefined, Undefined, Undefined)}]

Requests ==
  [createEvent |->
     { Params(Undefined, cal, "S", T10, T11, Undefined, Undefined) : cal \in {Undefined, "", "work"} }
     \cup { Params(Undefined, Undefined, summary, start, end, Undefined, Undefined) :
              summary \in {Undefined, "S"}, start \in {"", "not-a-date", T10},
              end \in {JsNull, "tomorrow", T11} },
   getEvent |->
     { Params(id, cal, Undefined, Undefined, Undefined, Undefined, Undefined) :
         id \in {Undefined, "e1"}, cal \in {Undefined, "", "work"} },
   listEvents |->
     { Params(Undefined, cal, Undefined, Undefined, Undefined, T10, T11) : cal \in {Undefined, "", "work"} }
     \cup { Params(Undefined, Undefined, Undefined, Undefined, Undefined, timeMin, timeMax) :
              timeMin \in {Undefined, "not-a-date", T10}, timeMax \in {"", T11} },
   updateEvent |->
     { Params("e1", cal, "S2", Undefined, Undefined, Undefined, Undefined) : cal \in {Undefined, "", "work"} }
     \cup { Params(id, Undefined, Undefined, start, end, Undefined, Undefined) :
              id \in {"", "e1"}, start \in {Undefined, "not-a-date", T11},
              end \in {Undefined, "tomorrow"} },
   deleteEvent |->
     { Params(id, cal, Undefined, Undefined, Undefined, Undefined, Undefined) :
         id \in {JsNull, "e1"}, cal \in {Undefined, "", "work"} }]

IdleTask ==
  [pc |-> "idle",            \* idle, auth, call1, call2, done
   op |-> "none",
   params |-> NoParams,
   cfg |-> NoCfg,             \* process.env when the handler was invoked
   dflt |-> Undefined,        \* defaultCalendarId when calendarId was resolved
   calendarId |-> Undefined,  \* the handler's local calendarId
   calendar |-> Null,         \* the handle getCalendarClient() returned to it
   authMode |-> Undefined,    \* what getAuthMode() returned to it
   handshake |-> Undefined,   \* the constructor getCalendarClient() ran for it
   fetch |-> FALSE,           \* it started the network step of the handshake
   resolveErr |-> NoError,    \* what getCalendarClient() rejected with
   calls |-> <<>>,            \* the provider calls it issued
   settled |-> "pending",     \* pending, fulfilled, rejected
   error |-> NoError,         \* what the handler rejected with
   value |-> NoValue,         \* what the handler returned
   answers |-> <<>>,          \* what the provider answered to its calls
   peers |-> {},              \* history: resolves in flight when its own began
   afterReset |-> FALSE,      \* history: its resolve is the first after a reset
                              \* that found no resolve in flight
   resetDuring |-> FALSE]     \* history: resetClient() was called while its
                              \* handshake was in flight

\* a ?? b
Coalesce(a, b) == IF a \in {Undefined, JsNull} THEN b ELSE a
\* attendees.map(email => ({ email }))
attendeeObjects(attendees) ==
  Items([i \in 1..Len(attendees.emails) |-> [email |-> attendees.emails[i]]])

DEFAULT_TIMEZONE == "Europe/Madrid"

\* The request body createEvent builds.
eventBody(params) ==
  LET timeZone == OrElse(params.timeZone, DEFAULT_TIMEZONE) IN
  [summary |-> params.summary,
   description |-> params.description,
   location |-> params.location,
   start |-> EventDateTime(params.start, timeZone),
   end |-> EventDateTime(params.end, timeZone),
   attendees |-> IF params.attendees = NoAttendees THEN NoAttendees
                 ELSE attendeeObjects(params.attendees)]

\* The request body updateEvent builds: the changes merged over the event read.
updatedEvent(params, currentEvent) ==
  LET timeZone == OrElse(params.timeZone, OrElse(currentEvent.start.timeZone, "Europe/Madrid")) IN
  [currentEvent EXCEPT
     !.summary = Coalesce(params.summary, @),
     !.description = Coalesce(params.description, @),
     !.location = Coalesce(params.location, @),
     !.start = IF Truthy(params.start) THEN EventDateTime(params.start, timeZone) ELSE @,
     !.end = IF Truthy(params.end) THEN EventDateTime(params.end, timeZone) ELSE @,
     !.attendees = IF params.attendees # NoAttendees
                   THEN attendeeObjects(params.attendees) ELSE @]

\* The EventResponse a handler builds from the resource the provider returned.
dateTimeResponse(time) ==
  [dateTime |-> OrElse(time.dateTime, Undefined),
   date |-> OrElse(time.date, Undefined),
   timeZone |-> OrElse(time.timeZone, Undefined)]

attendeesResponse(attendees) ==
  IF attendees = NoAttendees THEN NoAttendees
  ELSE Items([i \in 1..Len(attendees.items) |->
                [email |-> attendees.items[i].email,
                 responseStatus |-> OrElse(attendees.items[i].responseStatus, Undefined)]])

\* Mutant of eventResponse: start and end are swapped.
eventResponseSwapped(event) ==
  [id |-> event.id,
   summary |-> OrElse(event.summary, Undefined),
   description |-> OrElse(event.description, Undefined),
   location |-> OrElse(event.location, Undefined),
   start |-> dateTimeResponse(event.end),
   end |-> dateTimeResponse(event.start),
   status |-> OrElse(event.status, Undefined),
   attendees |-> attendeesResponse(event.attendees)]

\* The EventResponse createEvent, getEvent and updateEvent return for a
\* provider resource.
eventResponse(event) ==
  [id |-> event.id,
   summary |-> OrElse(event.summary, Undefined),
   description |-> OrElse(event.description, Undefined),
   location |-> OrElse(event.location, Undefined),
   start |-> dateTimeResponse(event.start),
   end |-> dateTimeResponse(event.end),
   status |-> OrElse(event.status, Undefined),
   attendees |-> attendeesResponse(event.attendees)]

\* An element of the array listEvents returns.
listItem(event) ==
  [id |-> event.id,
   summary |-> OrElse(event.summary, Undefined),
   start |-> dateTimeResponse(event.start),
   end |-> dateTimeResponse(event.end),
   status |-> OrElse(event.status, Undefined)]

NoBody == [none |-> TRUE]
CallWith(method, calendarId, eventId, requestBody) ==
  [method |-> method, calendarId |-> calendarId, eventId |-> eventId,
   requestBody |-> requestBody]
Call(method, calendarId, eventId) == CallWith(method, calendarId, eventId, NoBody)

\* Mutant of FirstCall: updateEvent writes at once, without reading first.
FirstCallWritesBlind(op, calendarId, params) ==
  CASE op = "createEvent" -> CallWith("insert", calendarId, Undefined, eventBody(params))
    [] op = "getEvent" -> Call("get", calendarId, params.eventId)
    [] op = "listEvents" -> Call("list", calendarId, Undefined)
    [] op = "updateEvent" -> CallWith("update", calendarId, params.eventId, eventBody(params))
    [] op = "deleteEvent" -> Call("get", calendarId, params.eventId)

\* The first provider call of each handler.
FirstCall(op, calendarId, params) ==
  CASE op = "createEvent" -> CallWith("insert", calendarId, Undefined, eventBody(params))
    [] op = "getEvent" -> Call("get", calendarId, params.eventId)
    [] op = "listEvents" -> Call("list", calendarId, Undefined)
    [] op = "updateEvent" -> Call("get", calendarId, params.eventId)
    [] op = "deleteEvent" -> Call("get", calendarId, params.eventId)

Reject(task, error) == [task EXCEPT !.pc = "done", !.settled = "rejected", !.error = error]
Fulfil(task, value) == [task EXCEPT !.pc = "done", !.settled = "fulfilled", !.value = value]

InFlightResolves == {u \in TaskIds : tasks[u].pc = "auth"}

\* google.calendar(...) builds a new object: a handle nothing refers to yet.
HandlesInUse == {calendarClient, returned} \cup {tasks[u].calendar : u \in TaskIds}
NewHandle ==
  CHOOSE h \in 1..(Cardinality(HandlesInUse) + 1) :
    /\ h \notin HandlesInUse
    /\ \A g \in 1..(h - 1) : g \in HandlesInUse

\* The handler issues its first provider call with the handle it was given.
IssueFirst(task) ==
  [task EXCEPT !.pc = "call1",
               !.calls = <<FirstCall(task.op, task.calendarId, task.params)>>]

\* getCalendarClient() as handler invocation t calls it, `task` being the
\* invocation so far: the cached return, or the synchronous part of the first
\* initialisation up to the await of the handshake; a synchronous failure
\* rejects the handler through its catch.
getCalendarClient(t, task) ==
  /\ quiet' = FALSE
  /\ IF calendarClient # Null THEN
       /\ tasks' = [tasks EXCEPT ![t] =
                      IssueFirst([task EXCEPT !.calendar = calendarClient,
                                              !.afterReset = quiet])]
       /\ returned' = IF returned = Null THEN calendarClient ELSE returned
       /\ UNCHANGED <<calendarClient, defaultCalendarId>>
     ELSE
       LET authMode == getAuthMode(env)
           thrown == IF authMode = "service_account"
                     THEN createServiceAccountClient(env)
                     ELSE createOAuth2Client(env)
           cold == [task EXCEPT !.authMode = authMode,
                                !.handshake = IF authMode = "service_account"
                                              THEN "createServiceAccountClient"
                                              ELSE "createOAuth2Client",
                                !.afterReset = quiet]
       IN
       /\ defaultCalendarId' = OrElse(env.GOOGLE_CALENDAR_ID, "primary")
       /\ UNCHANGED <<calendarClient, returned>>
       /\ tasks' = [tasks EXCEPT ![t] =
                      IF thrown # <<>>
                      THEN Reject([cold EXCEPT !.resolveErr = thrown[1]],
                                  parseGoogleError(thrown[1]))
                      ELSE [cold EXCEPT !.pc = "auth", !.fetch = TRUE,
                                        !.peers = InFlightResolves]]

\* Mutant of Invoke: the default calendar id is read from the configuration
\* before the validation result is looked at.
InvokeReadsConfigFirst(t, op, params, thrown) ==
  /\ LET task == [IdleTask EXCEPT !.op = op, !.params = params, !.cfg = env] IN
     IF thrown # <<>> THEN
       /\ tasks' = [tasks EXCEPT ![t] = Reject(task, thrown[1])]
       /\ defaultCalendarId' = OrElse(env.GOOGLE_CALENDAR_ID, "primary")
       /\ UNCHANGED <<calendarClient, returned, quiet>>
     ELSE
       getCalendarClient(t, [task EXCEPT !.dflt = defaultCalendarId,
                                         !.calendarId = resolveCalendarId(params.calendarId)])
  /\ UNCHANGED <<env, events, probe, ledger, http, toolResult>>

\* The synchronous prefix of a handler: `thrown` is what its validation
\* throws (outside the try, so it rejects the handler as it is); then the
\* calendar id is resolved and getCalendarClient() is called.
Invoke(t, op, params, thrown) ==
  /\ LET task == [IdleTask EXCEPT !.op = op, !.params = params, !.cfg = env] IN
     IF thrown # <<>> THEN
       /\ tasks' = [tasks EXCEPT ![t] = Reject(task, thrown[1])]
       /\ UNCHANGED <<calendarClient, defaultCalendarId, returned, quiet>>
     ELSE
       getCalendarClient(t, [task EXCEPT !.dflt = defaultCalendarId,
                                         !.calendarId = resolveCalendarId(params.calendarId)])
  /\ UNCHANGED <<env, events, probe, ledger, http, toolResult>>

\* The checks createEvent runs before its try block: what they throw, in order.
createEventValidation(params) ==
  validateRequired(params.summary, "summary")
  \o validateRequired(params.start, "start")
  \o validateRequired(params.end, "end")
  \o validateISODate(params.start, "start")
  \o validateISODate(params.end, "end")

createEvent(t, params) ==
  /\ tasks[t].pc = "idle"
  /\ Invoke(t, "createEvent", params, createEventValidation(params))

getEvent(t, params) ==
  /\ tasks[t].pc = "idle"
  /\ Invoke(t, "getEvent", params, validateRequired(params.eventId, "eventId"))

\* The checks listEvents runs before its try block: what they throw, in order.
listEventsValidation(params) ==
  validateRequired(params.timeMin, "timeMin")
  \o validateRequired(params.timeMax, "timeMax")
  \o validateISODate(params.timeMin, "timeMin")
  \o validateISODate(params.timeMax, "timeMax")

listEvents(t, params) ==
  /\ tasks[t].pc = "idle"
  /\ Invoke(t, "listEvents", params, listEventsValidation(params))

updateEvent(t, params) ==
  /\ tasks[t].pc = "idle"
  /\ Invoke(t, "updateEvent", params,
             validateRequired(params.eventId, "eventId")
             \o (IF Truthy(params.start) THEN validateISODate(params.start, "start") ELSE <<>>)
             \o (IF Truthy(params.end) THEN validateISODate(params.end, "end") ELSE <<>>))

deleteEvent(t, params) ==
  /\ tasks[t].pc = "idle"
  /\ Invoke(t, "deleteEvent", params, validateRequired(params.eventId, "eventId"))

\* Mutant of getCalendarClientResume: a handshake that failed still leaves a
\* handle in the cache.
getCalendarClientResumeCachesFailure(t) ==
  /\ tasks[t].pc = "auth"
  /\ \E outcome \in (IF tasks[t].handshake = "createOAuth2Client"
                     THEN GetAccessTokenOutcomes ELSE GetClientOutcomes) :
       LET thrown == IF tasks[t].handshake = "createOAuth2Client" THEN accessTokenCheck(outcome)
                     ELSE IF outcome.ok THEN <<>> ELSE <<outcome.error>>
       IN IF thrown = <<>> THEN
            /\ calendarClient' = NewHandle
            /\ returned' = IF returned = Null THEN NewHandle ELSE returned
            /\ tasks' = [tasks EXCEPT ![t] =
                           IssueFirst([tasks[t] EXCEPT !.calendar = NewHandle])]
          ELSE
            /\ tasks' = [tasks EXCEPT ![t] =
                           Reject([tasks[t] EXCEPT !.resolveErr = thrown[1]],
                                  parseGoogleError(thrown[1]))]
            /\ calendarClient' = NewHandle
            /\ UNCHANGED returned
  /\ UNCHANGED <<env, defaultCalendarId, events, quiet, probe, ledger, http, toolResult>>

\* The handshake of invocation t settles: createOAuth2Client or
\* createServiceAccountClient returns or rejects, getCalendarClient assigns
\* calendarClient and returns it, and the handler goes on to its first
\* provider call or rejects through its catch.
getCalendarClientResume(t) ==
  /\ tasks[t].pc = "auth"
  /\ \E outcome \in (IF tasks[t].handshake = "createOAuth2Client"
                     THEN GetAccessTokenOutcomes ELSE GetClientOutcomes) :
       LET thrown == IF tasks[t].handshake = "createOAuth2Client" THEN accessTokenCheck(outcome)
                     ELSE IF outcome.ok THEN <<>> ELSE <<outcome.error>>
       IN IF thrown = <<>> THEN
            /\ calendarClient' = NewHandle
            /\ returned' = IF returned = Null THEN NewHandle ELSE returned
            /\ tasks' = [tasks EXCEPT ![t] =
                           IssueFirst([tasks[t] EXCEPT !.calendar = NewHandle])]
          ELSE
            /\ tasks' = [tasks EXCEPT ![t] =
                           Reject([tasks[t] EXCEPT !.resolveErr = thrown[1]],
                                  parseGoogleError(thrown[1]))]
            /\ UNCHANGED <<calendarClient, returned>>
  /\ UNCHANGED <<env, defaultCalendarId, events, quiet, probe, ledger, http, toolResult>>

\* The provider stores an attendee with a responseStatus.
storedAttendees(attendees) ==
  IF attendees = NoAttendees THEN NoAttendees
  ELSE Items([i \in 1..Len(attendees.items) |->
                IF "responseStatus" \in DOMAIN attendees.items[i] THEN attendees.items[i]
                ELSE [email |-> attendees.items[i].email, responseStatus |-> "needsAction"]])

\* The resource the provider keeps for a request body, under an id.
storedEvent(id, body) ==
  Event(id, body.summary, body.description, body.location, body.start, body.end,
        storedAttendees(body.attendees))

\* The confirmed events of a calendar, in the order of their ids.
itemsOf(calendarId) ==
  LET live == SelectSeq(EventIds, LAMBDA id : Live(<<calendarId, id>>))
  IN [i \in 1..Len(live) |-> events[<<calendarId, live[i]>>]]

\* What the provider can answer to a call: the answer its events determine
\* (the new store with it), or one of the failures of ProviderFailures. An
\* event deleted stays as a cancelled resource, which no call finds; the
\* provider issues each id once, and one new id per calendar.
ProviderOutcomes(call) ==
  LET key == <<call.calendarId, call.eventId>>
      new == <<call.calendarId, NewEventId>>
      found(data, store) == {[ok |-> TRUE, data |-> data, events |-> store]}
      missing == {[ok |-> FALSE, error |-> NotFound, events |-> events]}
      natural ==
        CASE call.method = "insert" ->
               IF call.calendarId \notin Calendars THEN missing
               ELSE IF events[new] # Absent THEN {}
               ELSE found(storedEvent(NewEventId, call.requestBody),
                          [events EXCEPT ![new] = storedEvent(NewEventId, call.requestBody)])
          [] call.method = "list" ->
               IF call.calendarId \notin Calendars THEN missing
               ELSE found(Items(itemsOf(call.calendarId)), events)
          [] call.method = "delete" ->
               IF Live(key)
               THEN found(Undefined, [events EXCEPT ![key] = Cancelled])
               ELSE missing
          [] call.method = "update" ->
               IF Live(key)
               THEN found(storedEvent(call.eventId, call.requestBody),
                          [events EXCEPT ![key] = storedEvent(call.eventId, call.requestBody)])
               ELSE missing
          [] OTHER ->
               IF Live(key) THEN found(events[key], events) ELSE missing
  IN natural \cup {[ok |-> FALSE, error |-> f, events |-> events] : f \in ProviderFailures}

\* Mutant of deleteEventPrecheckCatch: the error of the read is thrown on as
\* it is.
deleteEventPrecheckCatchRethrows(getError, eventId, calendarId) == getError

\* The inner catch of deleteEvent around its pre-check read: what it throws.
deleteEventPrecheckCatch(getError, eventId, calendarId) ==
  IF HasStatus(getError.response, 404) THEN
    createNotFoundError("El evento con id '" \o eventId \o "' no existe en el calendario",
                        [eventId |-> eventId, calendarId |-> calendarId])
  ELSE getError

\* Mutant of deleteEventResult: the acknowledgment reports no success.
deleteEventResultUnsuccessful(eventId) ==
  [success |-> FALSE, message |-> "Evento '" \o eventId \o "' eliminado correctamente"]

\* What deleteEvent returns once the provider has deleted the event.
deleteEventResult(eventId) ==
  [success |-> TRUE, message |-> "Evento '" \o eventId \o "' eliminado correctamente"]

\* Mutant of Continue: updateEvent writes the caller's fields even when its
\* read failed.
ContinueWritesUnread(task, outcome) ==
  LET first == task.pc = "call1"
      answered == [task EXCEPT !.answers =
                     Append(@, IF outcome.ok THEN [ok |-> TRUE, data |-> outcome.data]
                               ELSE [ok |-> FALSE, error |-> outcome.error])]
      next(call) == [answered EXCEPT !.pc = "call2", !.calls = Append(@, call)]
  IN
  IF ~outcome.ok /\ first /\ task.op = "updateEvent" THEN
    next(CallWith("update", task.calendarId, task.params.eventId, eventBody(task.params)))
  ELSE IF ~outcome.ok THEN
    IF task.op = "deleteEvent" /\ first
    THEN Reject(answered, parseGoogleError(
                  deleteEventPrecheckCatch(outcome.error, task.params.eventId, task.calendarId)))
    ELSE Reject(answered, parseGoogleError(outcome.error))
  ELSE
    CASE task.op = "updateEvent" /\ first ->
           next(CallWith("update", task.calendarId, task.params.eventId,
                         updatedEvent(task.params, outcome.data)))
      [] task.op = "deleteEvent" /\ first ->
           next(Call("delete", task.calendarId, task.params.eventId))
      [] task.op = "deleteEvent" /\ ~first ->
           Fulfil(answered, deleteEventResult(task.params.eventId))
      [] task.op = "listEvents" ->
           Fulfil(answered,
                  Items([i \in 1..Len(outcome.data.items) |-> listItem(outcome.data.items[i])]))
      [] OTHER -> Fulfil(answered, eventResponse(outcome.data))

\* Mutant of Continue: a first call that fails is issued once more.
ContinueRetries(task, outcome) ==
  LET first == task.pc = "call1"
      answered == [task EXCEPT !.answers =
                     Append(@, IF outcome.ok THEN [ok |-> TRUE, data |-> outcome.data]
                               ELSE [ok |-> FALSE, error |-> outcome.error])]
      next(call) == [answered EXCEPT !.pc = "call2", !.calls = Append(@, call)]
  IN
  IF ~outcome.ok /\ first /\ task.op # "deleteEvent" THEN next(task.calls[1])
  ELSE IF ~outcome.ok THEN
    IF task.op = "deleteEvent" /\ first
    THEN Reject(answered, parseGoogleError(
                  deleteEventPrecheckCatch(outcome.error, task.params.eventId, task.calendarId)))
    ELSE Reject(answered, parseGoogleError(outcome.error))
  ELSE
    CASE task.op = "updateEvent" /\ first ->
           next(CallWith("update", task.calendarId, task.params.eventId,
                         updatedEvent(task.params, outcome.data)))
      [] task.op = "deleteEvent" /\ first ->
           next(Call("delete", task.calendarId, task.params.eventId))
      [] task.op = "deleteEvent" /\ ~first ->
           Fulfil(answered, deleteEventResult(task.params.eventId))
      [] task.op = "listEvents" ->
           Fulfil(answered,
                  Items([i \in 1..Len(outcome.data.items) |-> listItem(outcome.data.items[i])]))
      [] OTHER -> Fulfil(answered, eventResponse(outcome.data))

\* The handler's continuation after the answer to its call in flight.
Continue(task, outcome) ==
  LET first == task.pc = "call1"
      answered == [task EXCEPT !.answers =
                     Append(@, IF outcome.ok THEN [ok |-> TRUE, data |-> outcome.data]
                               ELSE [ok |-> FALSE, error |-> outcome.error])]
      next(call) == [answered EXCEPT !.pc = "call2", !.calls = Append(@, call)]
  IN
  IF ~outcome.ok THEN
    IF task.op = "deleteEvent" /\ first
    THEN Reject(answered, parseGoogleError(
                  deleteEventPrecheckCatch(outcome.error, task.params.eventId, task.calendarId)))
    ELSE Reject(answered, parseGoogleError(outcome.error))
  ELSE
    CASE task.op = "updateEvent" /\ first ->
           next(CallWith("update", task.calendarId, task.params.eventId,
                         updatedEvent(task.params, outcome.data)))
      [] task.op = "deleteEvent" /\ first ->
           next(Call("delete", task.calendarId, task.params.eventId))
      [] task.op = "deleteEvent" /\ ~first ->
           Fulfil(answered, deleteEventResult(task.params.eventId))
      [] task.op = "listEvents" ->
           Fulfil(answered,
                  Items([i \in 1..Len(outcome.data.items) |-> listItem(outcome.data.items[i])]))
      [] OTHER -> Fulfil(answered, eventResponse(outcome.data))

\* The history of the events createEvent returned, after an answer.
ledgerAfter(task, call, outcome) ==
  IF ~outcome.ok THEN ledger
  ELSE IF call.method = "insert" THEN
    ledger \cup {[calendarId |-> call.calendarId, id |-> outcome.data.id,
                  params |-> task.params, touched |-> FALSE]}
  ELSE IF call.method \in {"update", "delete"} THEN
    {IF l.calendarId = call.calendarId /\ l.id = call.eventId
     THEN [l EXCEPT !.touched = TRUE] ELSE l : l \in ledger}
  ELSE ledger

\* The provider answers the call invocation t has in flight.
providerResponse(t) ==
  /\ tasks[t].pc \in {"call1", "call2"}
  /\ \E outcome \in ProviderOutcomes(tasks[t].calls[Len(tasks[t].calls)]) :
       /\ events' = outcome.events
       /\ tasks' = [tasks EXCEPT ![t] = Continue(tasks[t], outcome)]
       /\ ledger' = ledgerAfter(tasks[t], tasks[t].calls[Len(tasks[t].calls)], outcome)
  /\ UNCHANGED <<env, calendarClient, defaultCalendarId, returned, quiet, probe, http,
                 toolResult>>

\* The front end has taken the settled result of invocation t: the slot is
\* free for the next request.
Taken(t) ==
  /\ tasks[t].pc = "done"
  /\ tasks' = [u \in TaskIds |->
                 IF u = t THEN IdleTask
                 ELSE [tasks[u] EXCEPT !.peers = @ \ {t}]]
  /\ UNCHANGED <<env, calendarClient, defaultCalendarId, events, returned, quiet, probe, ledger>>

\* The callback of a tool takes the settled result of invocation t.
Settle(t) == Taken(t) /\ UNCHANGED <<http, toolResult>>

-----------------------------------------------------------------------------
(* REST front end *)
NoReply == [none |-> TRUE]

\* A response sent: res.status(status).json(body), with the route that sent
\* it and, as history, the settled handler result it answers.
Reply(route, status, body, cause) ==
  [route |-> route, status |-> status, body |-> body, cause |-> cause]

\* error.toMCPError()
toMCPError(error) ==
  [type |-> error.type, message |-> error.message, details |-> error.details]

\* The route that calls each handler.
RouteOf(op) ==
  CASE op = "createEvent" -> "POST /api/events"
    [] op = "getEvent" -> "GET /api/events/:eventId"
    [] op = "listEvents" -> "GET /api/events"
    [] op = "updateEvent" -> "PUT /api/events/:eventId"
    [] op = "deleteEvent" -> "DELETE /api/events/:eventId"

\* The status a route's catch gives a Normalized Error.
statusCode(route, mcpError) ==
  IF route \in {"POST /api/events", "GET /api/events"} THEN
    (IF mcpError.type = "auth_error" THEN 401 ELSE 400)
  ELSE IF mcpError.type = "not_found_error" THEN 404
  ELSE IF mcpError.type = "auth_error" THEN 401
  ELSE 400

\* The catch of a route.
routeCatch(route, error, cause) ==
  IF IsMCPCalendarError(error) THEN
    Reply(route, statusCode(route, toMCPError(error)), toMCPError(error), cause)
  ELSE
    Reply(route, 500,
          [error |-> "unknown_error",
           message |-> IF IsError(error) THEN error.message ELSE String(error)],
          cause)

\* What a route sends once the handler it awaits has settled.
routeResponse(task) ==
  LET route == RouteOf(task.op)
      cause == [settled |-> task.settled, error |-> task.error]
  IN
  IF task.settled = "rejected" THEN routeCatch(route, task.error, cause)
  ELSE IF task.op = "createEvent" THEN Reply(route, 201, task.value, cause)
  ELSE IF task.op = "deleteEvent" THEN Reply(route, 204, NoBody, cause)
  ELSE Reply(route, 200, task.value, cause)

\* A route answers 400 on its own, without calling its handler (history: the
\* params it would have called the handler with).
routeRefuses(t, route, message, params) ==
  /\ tasks[t].pc = "idle"
  /\ http' = Reply(route, 400, [error |-> "validation_error", message |-> message],
                   [settled |-> "refused", params |-> params])
  /\ UNCHANGED <<env, calendarClient, defaultCalendarId, events, tasks, returned, quiet,
                 probe, ledger, toolResult>>

\* A request that arrives without a JSON body: express.json() parses nothing.
\* Depending on the version of the body parser installed, req.body is then
\* an empty object or undefined.
WithoutBody(eventId) == [bodyAbsent |-> TRUE, eventId |-> eventId]

\* const { summary, ... } = req.body, with req.body undefined.
DestructureError ==
  RawError("TypeError",
           "Cannot destructure property 'summary' of 'req.body' as it is undefined.",
           NoResponse)

\* The try block of a route throws before the handler is called: its catch
\* answers.
routeThrows(t, route, error) ==
  /\ tasks[t].pc = "idle"
  /\ http' = routeCatch(route, error, [settled |-> "thrown", error |-> error])
  /\ UNCHANGED <<env, calendarClient, defaultCalendarId, events, tasks, returned, quiet,
                 probe, ledger, toolResult>>

postEvents(t, body) ==
  IF "bodyAbsent" \in DOMAIN body THEN
    \/ routeThrows(t, "POST /api/events", DestructureError)
    \/ routeRefuses(t, "POST /api/events", "Los campos summary, start y end son requeridos",
                    NoParams)
  ELSE IF ~Truthy(body.summary) \/ ~Truthy(body.start) \/ ~Truthy(body.end)
  THEN routeRefuses(t, "POST /api/events", "Los campos summary, start y end son requeridos",
                    body)
  ELSE createEvent(t, body)

getEventById(t, request) == getEvent(t, request)

getEvents(t, query) ==
  IF ~Truthy(query.timeMin) \/ ~Truthy(query.timeMax)
  THEN routeRefuses(t, "GET /api/events", "Los parámetros timeMin y timeMax son requeridos",
                    query)
  ELSE listEvents(t, query)

putEvent(t, request) ==
  IF "bodyAbsent" \in DOMAIN request THEN
    \/ routeThrows(t, "PUT /api/events/:eventId", DestructureError)
    \/ updateEvent(t, [NoParams EXCEPT !.eventId = request.eventId])
  ELSE updateEvent(t, request)

deleteEventById(t, request) == deleteEvent(t, request)

\* The handler a route awaits has settled: the route sends its response.
routeResume(t) == Taken(t) /\ http' = routeResponse(tasks[t]) /\ UNCHANGED toolResult

-----------------------------------------------------------------------------
(* Tool front end *)
NoToolResult == [none |-> TRUE]

\* JSON.stringify(value, null, 2) of an object: the text holds the properties
\* that are defined, a property that is undefined is left out.
JSONstringify(value) ==
  LET omitted(f) ==
        CASE f = "details" -> value[f] = NoDetails
          [] f = "attendees" -> value[f] = NoAttendees
          [] f \in {"summary", "description", "location", "status"} -> value[f] = Undefined
          [] OTHER -> FALSE
  IN [json |-> [k \in {f \in DOMAIN value : ~omitted(f)} |-> value[k]]]

formatResult(result) ==
  [content |-> <<[type |-> "text", text |-> JSONstringify(result)]>>]

\* Mutant of formatError: the payload carries no error flag.
formatErrorUnflagged(error) ==
  IF IsMCPCalendarError(error) THEN
    [content |-> <<[type |-> "text", text |-> JSONstringify(toMCPError(error))]>>]
  ELSE
    [content |-> <<[type |-> "text",
                    text |-> JSONstringify(
                      [type |-> "unknown_error",
                       message |-> IF IsError(error) THEN error.message ELSE String(error)])]>>]

formatError(error) ==
  IF IsMCPCalendarError(error) THEN
    [content |-> <<[type |-> "text", text |-> JSONstringify(toMCPError(error))]>>,
     isError |-> TRUE]
  ELSE
    [content |-> <<[type |-> "text",
                    text |-> JSONstringify(
                      [type |-> "unknown_error",
                       message |-> IF IsError(error) THEN error.message ELSE String(error)])]>>,
     isError |-> TRUE]

\* What a tool callback returns once the handler it awaits has settled.
toolPayload(task) ==
  IF task.settled = "rejected" THEN formatError(task.error) ELSE formatResult(task.value)

\* The five tool callbacks: each calls its handler with the arguments the
\* input schema let through.
create_event(t, params) == createEvent(t, params)
get_event(t, params) == getEvent(t, params)
list_events(t, params) == listEvents(t, params)
update_event(t, params) == updateEvent(t, params)
delete_event(t, params) == deleteEvent(t, params)

\* The handler a tool callback awaits has settled: the callback returns its
\* payload (with, as history, the settled handler result it answers).
toolReturn(t) ==
  /\ Taken(t)
  /\ toolResult' = [op |-> tasks[t].op, payload |-> toolPayload(tasks[t]),
                     settled |-> tasks[t].settled, error |-> tasks[t].error,
                     value |-> tasks[t].value]
  /\ UNCHANGED http

\* Mutant of resetClient: the default calendar id is left as it is.
resetClientKeepsDefault ==
  /\ calendarClient' = Null
  /\ UNCHANGED defaultCalendarId
  /\ returned' = Null
  /\ quiet' = (InFlightResolves = {})
  /\ tasks' = [u \in TaskIds |->
                 IF u \in InFlightResolves THEN [tasks[u] EXCEPT !.resetDuring = TRUE]
                 ELSE tasks[u]]
  /\ UNCHANGED <<env, events, probe, ledger, http, toolResult>>

resetClient ==
  /\ calendarClient' = Null
  /\ defaultCalendarId' = "primary"
  /\ returned' = Null
  /\ quiet' = (InFlightResolves = {})
  /\ tasks' = [u \in TaskIds |->
                 IF u \in InFlightResolves THEN [tasks[u] EXCEPT !.resetDuring = TRUE]
                 ELSE tasks[u]]
  /\ UNCHANGED <<env, events, probe, ledger, http, toolResult>>

\* A direct call of the exported resolveCalendarId.
CalendarIdProbes == {Undefined, "", "work", "primary"}
resolveCalendarIdCall ==
  \E calendarId \in CalendarIdProbes :
    /\ probe' = [arg |-> calendarId, dflt |-> defaultCalendarId,
                 out |-> resolveCalendarId(calendarId)]
    /\ UNCHANGED <<env, calendarClient, defaultCalendarId, events, tasks, returned, quiet, ledger, http, toolResult>>

\* The values a catch block can hand to parseGoogleError: normalized errors,
\* Error objects and plain objects with and without a message and a response
\* (no response, a response that is no object, a response object without and
\* with a status, each with the shapes of data), and thrown strings.
DataValues ==
  { NoData,
    [error |-> [isObject |-> FALSE, message |-> Undefined]],
    ErrorData(Undefined), ErrorData(""), ErrorData("Backend Error") }
ResponseValues ==
  { NoResponse, PrimitiveResponse("timeout") }
  \cup { ResponseWithoutStatus(data) : data \in DataValues }
  \cup { [status |-> status, data |-> data] :
           status \in {400, 401, 403, 404, 500}, data \in DataValues }
ThrownValues ==
  { createAuthError("No se pudo obtener el access token", NoDetails),
    createValidationError("El campo 'eventId' es requerido", [field |-> "eventId"]),
    createNotFoundError("El evento con id 'e1' no existe en el calendario",
                        [eventId |-> "e1", calendarId |-> "primary"]),
    createGoogleApiError("Backend Error", [status |-> 500, data |-> NoData]),
    MCPCalendarError("unknown_error", "Ha ocurrido un error desconocido",
                     [originalError |-> "oops"]) }
  \cup { RawError(cls, message, response) :
           cls \in {"Error"}, message \in {"", "boom"}, response \in ResponseValues }
  \cup { RawError("Object", message, response) :
           message \in {Undefined, "boom"}, response \in ResponseValues }
  \cup { ThrownString("oops"), ThrownString("") }

\* A direct call of the exported parseGoogleError, and of parseGoogleError on
\* its result.
parseGoogleErrorCall ==
  \E error \in ThrownValues :
    /\ probe' = [arg |-> error, out |-> parseGoogleError(error),
                 again |-> parseGoogleError(parseGoogleError(error))]
    /\ UNCHANGED <<env, calendarClient, defaultCalendarId, events, tasks, returned, quiet, ledger, http, toolResult>>

\* The configurations a credential rotation installs.
RotatedConfigs ==
  { Env(Undefined, Undefined, "v", "v", "v", "team"),
    Env(Undefined, "{ok}", Undefined, Undefined, Undefined, Undefined) }

\* The operator changes the configuration of the running process.
setEnv ==
  /\ \E c \in RotatedConfigs \ {env} : env' = c
  /\ UNCHANGED <<calendarClient, defaultCalendarId, events, tasks, returned, quiet, probe, ledger, http, toolResult>>

-----------------------------------------------------------------------------
InitWith(configs) ==
  /\ env \in configs
  /\ calendarClient = Null
  /\ defaultCalendarId = "primary"
  /\ events = InitialEvents
  /\ tasks = [t \in TaskIds |-> IdleTask]
  /\ returned = Null
  /\ quiet = FALSE
  /\ probe = [arg |-> Undefined, dflt |-> "primary", out |-> "primary"]
  /\ ledger = {}
  /\ http = NoReply
  /\ toolResult = NoToolResult

\* The invocations of the handlers that only read the provider, of those that
\* change its events, and the steps every invocation goes on with: by the
\* slots T, on the requests R.
Reads(T, R) ==
  \/ \E t \in T, params \in R.getEvent : getEvent(t, params)
  \/ \E t \in T, params \in R.listEvents : listEvents(t, params)

Writes(T, R) ==
  \/ \E t \in T, params \in R.createEvent : createEvent(t, params)
  \/ \E t \in T, params \in R.updateEvent : updateEvent(t, params)
  \/ \E t \in T, params \in R.deleteEvent : deleteEvent(t, params)

Steps(T) ==
  \/ \E t \in T : getCalendarClientResume(t)
  \/ \E t \in T : providerResponse(t)
  \/ \E t \in T : Settle(t)

Handlers(T, R) == Reads(T, R) \/ Writes(T, R) \/ Steps(T)

\* Concurrent requests against the resolver, with credential rotation and reset.
Init == InitWith(RotatedConfigs)
Next == Reads(TaskIds, Plain) \/ Steps(TaskIds) \/ resetClient \/ setEnv
Spec == Init /\ [][Next]_vars

\* One request at a time, every handler, under every configuration.
InitConfig == InitWith(Configs)
NextConfig == Handlers({1}, Plain)
SpecConfig == InitConfig /\ [][NextConfig]_vars

\* One request at a time, every handler and every request of the model, with
\* reset.
\* Two usable configurations and three unusable ones: a key that is no JSON,
\* a key file that does not exist, no credentials at all.
HandlerConfigs ==
  RotatedConfigs
  \cup { Env(Undefined, "{bad", "v", "v", "v", "team"),
         Env("missing.json", Undefined, Undefined, Undefined, Undefined, Undefined),
         Env(Undefined, Undefined, Undefined, "", Undefined, "") }
InitHandlers == InitWith(HandlerConfigs)
NextHandlers == Handlers({1}, Requests) \/ resetClient
SpecHandlers == InitHandlers /\ [][NextHandlers]_vars

\* One reading request at a time, with and without a calendarId, with reset
\* and direct calls of resolveCalendarId.
InitCalendarId == InitWith(HandlerConfigs)
NextCalendarId ==
  Reads({1}, Requests) \/ Steps({1}) \/ resetClient \/ resolveCalendarIdCall
SpecCalendarId == InitCalendarId /\ [][NextCalendarId]_vars

\* One deleteEvent at a time, with direct calls of parseGoogleError: under a usable
\* configuration and under one whose key file does not exist.
ErrorConfigs ==
  { Env(Undefined, Undefined, "v", "v", "v", Undefined),
    Env("missing.json", Undefined, Undefined, Undefined, Undefined, Undefined) }
InitErrors == InitWith(ErrorConfigs)
NextErrors ==
  \/ \E params \in Plain.deleteEvent : deleteEvent(1, params)
  \/ Steps({1})
  \/ parseGoogleErrorCall
SpecErrors == InitErrors /\ [][NextErrors]_vars

\* One request at a time on the events of the primary calendar, under a
\* usable configuration: creations with and without the optional fields,
\* updates that supply one or two fields each, reads and deletions of the
\* initial and of the created event.
EventRequests ==
  [createEvent |->
     { Params(Undefined, Undefined, "Lunch", T10, T11, Undefined, Undefined),
       [Params(Undefined, Undefined, "Demo", T11, T10, Undefined, Undefined)
          EXCEPT !.location = "Lab", !.timeZone = "UTC",
                 !.attendees = Emails(<<"bo@example.com">>)] },
   getEvent |->
     { Params(id, Undefined, Undefined, Undefined, Undefined, Undefined, Undefined) :
         id \in {"e1", "e2"} },
   listEvents |-> Plain.listEvents,
   updateEvent |->
     { [Params(id, Undefined, Undefined, Undefined, Undefined, Undefined, Undefined)
          EXCEPT ![change[1]] = change[2], ![change[3]] = change[4]] :
         id \in {"e1", "e2"},
         change \in { <<"summary", "S2", "summary", "S2">>,
                      <<"start", T11, "timeZone", "UTC">>,
                      <<"description", "D", "attendees", Emails(<<"bo@example.com", "cy@example.com">>)>>,
                      <<"location", "Lab", "end", T10>>,
                      <<"timeZone", "UTC", "timeZone", "UTC">> } },
   deleteEvent |->
     { Params(id, Undefined, Undefined, Undefined, Undefined, Undefined, Undefined) :
         id \in {"e1", "e2"} }]
EventConfigs == { Env(Undefined, Undefined, "v", "v", "v", Undefined) }
InitEvents == InitWith(EventConfigs)
NextEvents == Handlers({1}, EventRequests)
SpecEvents == InitEvents /\ [][NextEvents]_vars

\* One REST request at a time: every route, on events and calendars that
\* exist and that do not, with and without usable credentials.
RestRequests ==
  [createEvent |->
     { Params(Undefined, cal, "S", T10, T11, Undefined, Undefined) : cal \in {Undefined, "nowhere"} }
     \cup { Params(Undefined, Undefined, Undefined, T10, T11, Undefined, Undefined),
            Params(Undefined, Undefined, "S", "not-a-date", T11, Undefined, Undefined) },
   getEvent |->
     { Params(id, Undefined, Undefined, Undefined, Undefined, Undefined, Undefined) :
         id \in {"e1", "e2"} },
   listEvents |->
     { Params(Undefined, cal, Undefined, Undefined, Undefined, T10, T11) :
         cal \in {Undefined, "nowhere"} }
     \cup { Params(Undefined, Undefined, Undefined, Undefined, Undefined, Undefined, T11) },
   updateEvent |->
     { Params(id, Undefined, "S2", Undefined, Undefined, Undefined, Undefined) :
         id \in {"e1", "e2"} },
   deleteEvent |->
     { Params(id, Undefined, Undefined, Undefined, Undefined, Undefined, Undefined) :
         id \in {"e1", "e2"} }]
NextRest ==
  \/ \E body \in RestRequests.createEvent \cup {WithoutBody(Undefined)} : postEvents(1, body)
  \/ \E request \in RestRequests.getEvent : getEventById(1, request)
  \/ \E query \in RestRequests.listEvents : getEvents(1, query)
  \/ \E request \in RestRequests.updateEvent \cup {WithoutBody("e1")} : putEvent(1, request)
  \/ \E request \in RestRequests.deleteEvent : deleteEventById(1, request)
  \/ getCalendarClientResume(1)
  \/ providerResponse(1)
  \/ routeResume(1)
SpecRest == InitErrors /\ [][NextRest]_vars

\* One tool call at a time: the five tools, with arguments their input
\* schemas accept (a required string may be empty, a date may be malformed),
\* with and without usable credentials.
ToolRequests ==
  [createEvent |->
     { Params(Undefined, cal, "S", T10, T11, Undefined, Undefined) : cal \in {Undefined, "nowhere"} }
     \cup { Params(Undefined, Undefined, "", T10, T11, Undefined, Undefined),
            Params(Undefined, Undefined, "S", "not-a-date", T11, Undefined, Undefined) },
   getEvent |->
     { Params(id, Undefined, Undefined, Undefined, Undefined, Undefined, Undefined) :
         id \in {"", "e1", "e2"} },
   listEvents |->
     { Params(Undefined, cal, Undefined, Undefined, Undefined, T10, T11) :
         cal \in {Undefined, "nowhere"} },
   updateEvent |->
     { Params(id, Undefined, "S2", Undefined, Undefined, Undefined, Undefined) :
         id \in {"e1", "e2"} },
   deleteEvent |->
     { Params(id, Undefined, Undefined, Undefined, Undefined, Undefined, Undefined) :
         id \in {"e1", "e2"} }]
NextTools ==
  \/ \E params \in ToolRequests.createEvent : create_event(1, params)
  \/ \E params \in ToolRequests.getEvent : get_event(1, params)
  \/ \E params \in ToolRequests.listEvents : list_events(1, params)
  \/ \E params \in ToolRequests.updateEvent : update_event(1, params)
  \/ \E params \in ToolRequests.deleteEvent : delete_event(1, params)
  \/ getCalendarClientResume(1)
  \/ providerResponse(1)
  \/ toolReturn(1)
SpecTools == InitErrors /\ [][NextTools]_vars

\* Concurrent updates of one event, each caller supplying one field of its
\* own, with usable credentials.
UpdateRequests ==
  { [Params("e1", Undefined, "S2", Undefined, Undefined, Undefined, Undefined)
       EXCEPT !.location = Undefined],
    [Params("e1", Undefined, Undefined, Undefined, Undefined, Undefined, Undefined)
       EXCEPT !.location = "Lab"] }
NextUpdates ==
  \/ \E t \in TaskIds, params \in UpdateRequests : updateEvent(t, params)
  \/ Steps(TaskIds)
SpecUpdates == InitEvents /\ [][NextUpdates]_vars

\* One request after the other, the result of the first still held by its
\* caller while the second runs; the process may start with a service-account
\* key file that does not exist, and the operator may install a usable
\* configuration at any time.
RecoveryConfigs ==
  RotatedConfigs
  \cup { Env("missing.json", Undefined, Undefined, Undefined, Undefined, Undefined) }
InitRecovery == InitWith(RecoveryConfigs)
NextRecovery ==
  \/ tasks[2].pc = "idle" /\ \E params \in Plain.getEvent : getEvent(1, params)
  \/ tasks[1].pc = "done" /\ \E params \in Plain.listEvents : listEvents(2, params)
  \/ Steps({1, 2})
  \/ setEnv
SpecRecovery == InitRecovery /\ [][NextRecovery]_vars

\* Concurrent deletions of the events of the default calendar, with usable
\* credentials.
NextDeletes ==
  \/ \E t \in TaskIds, params \in EventRequests.deleteEvent : deleteEvent(t, params)
  \/ Steps(TaskIds)
SpecDeletes == InitEvents /\ [][NextDeletes]_vars

-----------------------------------------------------------------------------
(* Claims *)

\* The invocations that called getCalendarClient(), and among them those
\* that found no cached handle and ran mode selection.
Resolving(t) == tasks[t].calendarId # Undefined
Selected(t) == tasks[t].authMode # Undefined
ServiceAccountKeySet(e) ==
  e.GOOGLE_SERVICE_ACCOUNT_KEY_FILE \notin {Undefined, ""}
  \/ e.GOOGLE_SERVICE_ACCOUNT_KEY \notin {Undefined, ""}
OAuthNames == {"GOOGLE_CLIENT_ID", "GOOGLE_CLIENT_SECRET", "GOOGLE_REFRESH_TOKEN"}
MissingOAuth(e) == {n \in OAuthNames : e[n] \in {Undefined, ""}}
Range(seq) == {seq[i] : i \in 1..Len(seq)}

\* C1: callers that invoke getCalendarClient() while another resolve is in
\* flight and nothing is cached run no handshake of their own, and receive
\* the handle the resolve in flight yields (single-flight).
C1_SingleFlight ==
  \A a \in TaskIds : \A b \in tasks[a].peers :
    /\ ~tasks[a].fetch
    /\ (tasks[a].calendar # Null /\ tasks[b].calendar # Null
          => tasks[a].calendar = tasks[b].calendar)

\* C2: once a resolve has completed and no reset has happened since, every
\* getCalendarClient() call that starts returns the handle that resolve
\* returned, with no mode selection and no handshake.
C2_CachedAfterFirst ==
  [][\A t \in TaskIds :
       (returned # Null /\ tasks[t].pc = "idle" /\ tasks'[t].calendarId # Undefined)
         => /\ tasks'[t].calendar = returned
            /\ tasks'[t].authMode = Undefined
            /\ tasks'[t].handshake = Undefined]_vars

\* C3: a cached handle is replaced or cleared by resetClient() only.
C3_OnlyResetReplaces ==
  [][(calendarClient # Null /\ calendarClient' # calendarClient) => resetClient]_vars

\* C4: after a resetClient() that found no resolve in flight the cached
\* handle is null and the default calendar id is 'primary' until the next
\* getCalendarClient() call, and that call reads the configuration, selects
\* the mode and runs the constructor again: it gets a handle only from a
\* handshake of its own.
C4_ResetForcesResolve ==
  /\ quiet => (calendarClient = Null /\ defaultCalendarId = "primary")
  /\ \A t \in TaskIds :
       tasks[t].afterReset =>
         /\ tasks[t].authMode = getAuthMode(tasks[t].cfg)
         /\ tasks[t].handshake \in {"createServiceAccountClient", "createOAuth2Client"}
         /\ (tasks[t].calendar # Null => tasks[t].fetch)

\* C4 witness: a resolve that was the first after such a reset has completed
\* its own handshake and holds the handle now cached.
C4_Witness ==
  \E t \in TaskIds :
    /\ tasks[t].afterReset
    /\ tasks[t].calendar # Null
    /\ tasks[t].calendar = calendarClient

\* C5: a resolve that selects the mode uses the service-account constructor
\* exactly when a service-account key (file or literal, non-empty) is
\* configured, whatever the OAuth2 values; with an unusable key it fails
\* without a handle, never having run the OAuth2 constructor.
C5_ServiceAccountPrecedence ==
  \A t \in TaskIds :
    Selected(t) =>
      IF ServiceAccountKeySet(tasks[t].cfg)
      THEN /\ tasks[t].authMode = "service_account"
           /\ tasks[t].handshake = "createServiceAccountClient"
           /\ (tasks[t].resolveErr # NoError =>
                 tasks[t].calendar = Null /\ tasks[t].settled = "rejected")
      ELSE /\ tasks[t].authMode = "oauth2"
           /\ tasks[t].handshake = "createOAuth2Client"

\* C5 witness: key and complete OAuth2 triple both configured, and the
\* service-account handshake has yielded the handle.
C5_Witness ==
  \E t \in TaskIds :
    /\ Selected(t)
    /\ ServiceAccountKeySet(tasks[t].cfg)
    /\ MissingOAuth(tasks[t].cfg) = {}
    /\ tasks[t].handshake = "createServiceAccountClient"
    /\ tasks[t].calendar # Null

\* C6: resolveCalendarId(x) is x when x is a non-empty string, else the
\* default when that is non-empty, else 'primary', in direct calls and in
\* the handlers; a direct call changes nothing of the resolver, the
\* provider or the invocations.
CalendarIdRule(x, dflt) ==
  IF x \notin {Undefined, ""} THEN x
  ELSE IF dflt \notin {Undefined, ""} THEN dflt
  ELSE "primary"

C6_ResolveCalendarId ==
  /\ [](/\ probe.out = CalendarIdRule(probe.arg, probe.dflt)
        /\ \A t \in TaskIds :
             Resolving(t) =>
               tasks[t].calendarId = CalendarIdRule(tasks[t].params.calendarId, tasks[t].dflt))
  /\ [][probe' # probe =>
          UNCHANGED <<env, calendarClient, defaultCalendarId, events, tasks, returned, quiet, ledger, http, toolResult>>]_vars

\* C6 witness: a direct call with an empty argument returned the resolved
\* default, and a handler given a calendarId used it against another default.
C6_Witness ==
  /\ probe.arg = "" /\ probe.dflt = "team" /\ probe.out = "team"
  /\ \E t \in TaskIds :
       /\ tasks[t].params.calendarId = "work"
       /\ tasks[t].dflt = "team"
       /\ tasks[t].calendarId = "work"

\* C7: every provider call of an operation invoked without a calendarId
\* targets the configured GOOGLE_CALENDAR_ID, and 'primary' only when none
\* is configured.
C7_ConfiguredCalendar ==
  \A t \in TaskIds :
    tasks[t].params.calendarId = Undefined =>
      \A i \in 1..Len(tasks[t].calls) :
        tasks[t].calls[i].calendarId =
          (IF tasks[t].cfg.GOOGLE_CALENDAR_ID \notin {Undefined, ""}
           THEN tasks[t].cfg.GOOGLE_CALENDAR_ID ELSE "primary")

\* C8: whatever getCalendarClient() rejects with is an MCPCalendarError of
\* type auth_error, and the handler rejects with that very error.
C8_ResolverFailsWithAuthError ==
  \A t \in TaskIds :
    tasks[t].resolveErr # NoError =>
      /\ IsMCPCalendarError(tasks[t].resolveErr)
      /\ tasks[t].resolveErr.type = "auth_error"
      /\ tasks[t].error = tasks[t].resolveErr

\* C9: a resolve with no service-account key and an OAuth2 value missing or
\* empty is rejected with an auth_error whose detail lists exactly the
\* missing variables, starts no access-token fetch and caches no handle.
C9_MissingOAuthVars ==
  /\ \A t \in TaskIds :
       (Selected(t) /\ ~ServiceAccountKeySet(tasks[t].cfg) /\ MissingOAuth(tasks[t].cfg) # {})
         => /\ tasks[t].settled = "rejected"
            /\ IsMCPCalendarError(tasks[t].resolveErr)
            /\ tasks[t].resolveErr.type = "auth_error"
            /\ tasks[t].error = tasks[t].resolveErr
            /\ DOMAIN tasks[t].resolveErr.details = {"missingVars"}
            /\ Range(tasks[t].resolveErr.details.missingVars) = MissingOAuth(tasks[t].cfg)
            /\ Len(tasks[t].resolveErr.details.missingVars)
                 = Cardinality(MissingOAuth(tasks[t].cfg))
            /\ ~tasks[t].fetch
            /\ tasks[t].calendar = Null
            /\ tasks[t].calls = <<>>
  /\ (~ServiceAccountKeySet(env) /\ MissingOAuth(env) # {}) => calendarClient = Null

\* C9 witness: client id and refresh token missing, the secret present.
C9_Witness ==
  \E t \in TaskIds :
    /\ tasks[t].settled = "rejected"
    /\ tasks[t].resolveErr # NoError
    /\ tasks[t].resolveErr.details = [missingVars |-> <<"GOOGLE_CLIENT_ID", "GOOGLE_REFRESH_TOKEN">>]
    /\ tasks[t].cfg.GOOGLE_CLIENT_ID = ""
    /\ tasks[t].cfg.GOOGLE_REFRESH_TOKEN = Undefined

\* C10: whatever a handler rejects with is an MCPCalendarError whose type is
\* one of the five of the taxonomy.
C10_OnlyNormalizedErrors ==
  \A t \in TaskIds :
    tasks[t].settled = "rejected" =>
      /\ IsMCPCalendarError(tasks[t].error)
      /\ tasks[t].error.type \in ErrorTypes

\* C10 witness: a raw error of the second provider call, with no response,
\* has been normalized.
C10_Witness ==
  \E t \in TaskIds :
    /\ tasks[t].settled = "rejected"
    /\ Len(tasks[t].calls) = 2
    /\ tasks[t].error = createGoogleApiError("socket hang up", NoDetails)
\* The selection rule for a value that is no MCPCalendarError: the kind,
\* message and detail of the first rule that matches.
ParseProbe == "again" \in DOMAIN probe
ObjectResponse(e) == e.cls # "string" /\ "data" \in DOMAIN e.response
StatusIn(e, codes) == "status" \in DOMAIN e.response /\ e.response.status \in codes
ProviderMessage(e) ==
  IF e.response.data = NoData THEN Undefined
  ELSE IF ~e.response.data.error.isObject THEN Undefined
  ELSE e.response.data.error.message
StatusAndData(e) ==
  [status |-> IF "status" \in DOMAIN e.response THEN e.response.status ELSE Undefined,
   data |-> e.response.data]
C11_Rule(e) ==
  CASE ObjectResponse(e) /\ StatusIn(e, {401, 403}) ->
         [type |-> "auth_error",
          message |-> "Error de autenticacion con Google Calendar. Verifica tus credenciales.",
          details |-> StatusAndData(e)]
    [] ObjectResponse(e) /\ StatusIn(e, {404}) ->
         [type |-> "not_found_error",
          message |-> "El recurso solicitado no existe en Google Calendar.",
          details |-> StatusAndData(e)]
    [] ObjectResponse(e) /\ ~StatusIn(e, {401, 403, 404}) ->
         [type |-> "google_api_error",
          message |-> IF ProviderMessage(e) \in {Undefined, ""}
                      THEN "Error de Google API" ELSE ProviderMessage(e),
          details |-> StatusAndData(e)]
    [] ~ObjectResponse(e) /\ e.cls # "string" /\ e.message # Undefined ->
         [type |-> "google_api_error", message |-> e.message, details |-> NoDetails]
    [] OTHER ->
         [type |-> "unknown_error", message |-> "Ha ocurrido un error desconocido",
          details |-> [originalError |-> String(e)]]

\* C11: for a value that is no MCPCalendarError, parseGoogleError returns the
\* kind of the first matching rule: response object with status 401 or 403,
\* auth_error; with status 404, not_found_error; any other response object,
\* google_api_error with the provider's nested message or the fallback; these
\* with {status, data} as detail, whatever the message; no response object but
\* a string message, google_api_error with it; else unknown_error with the
\* stringified value as detail.
C11_SelectionRule ==
  (ParseProbe /\ ~IsMCPCalendarError(probe.arg)) =>
    /\ IsMCPCalendarError(probe.out)
    /\ probe.out.type = C11_Rule(probe.arg).type
    /\ probe.out.message = C11_Rule(probe.arg).message
    /\ probe.out.details = C11_Rule(probe.arg).details

\* A response object with status 404 on an Error that also has a message.
C11_Witness ==
  /\ ParseProbe
  /\ probe.arg = RawError("Error", "boom", [status |-> 404, data |-> ErrorData("")])
  /\ probe.out.type = "not_found_error"

\* C12: parseGoogleError returns an MCPCalendarError as it is, so applying it
\* twice equals applying it once; the not-found error deleteEvent builds after
\* its pre-check read found nothing, and an auth_error of the resolver, reach
\* the caller with type, message and detail as built.
C12_PassThrough ==
  /\ ParseProbe =>
       /\ probe.again = probe.out
       /\ IsMCPCalendarError(probe.arg) => probe.out = probe.arg
  /\ \A t \in TaskIds :
       (tasks[t].pc = "done" /\ tasks[t].op = "deleteEvent") =>
         /\ (Len(tasks[t].answers) = 1 /\ tasks[t].answers[1] = [ok |-> FALSE, error |-> NotFound]) =>
              /\ tasks[t].settled = "rejected"
              /\ tasks[t].error =
                   MCPCalendarError("not_found_error",
                     "El evento con id '" \o tasks[t].params.eventId
                       \o "' no existe en el calendario",
                     [eventId |-> tasks[t].params.eventId,
                      calendarId |-> tasks[t].calendarId])
         /\ (tasks[t].resolveErr # NoError /\ tasks[t].resolveErr.cls = "MCPCalendarError") =>
              /\ tasks[t].settled = "rejected"
              /\ tasks[t].error = tasks[t].resolveErr

\* C12 witness: an MCPCalendarError was given to parseGoogleError, and a
\* deleteEvent whose pre-check read found nothing has rejected.
C12_Witness ==
  /\ ParseProbe /\ IsMCPCalendarError(probe.arg) /\ probe.arg.type = "validation_error"
  /\ \E t \in TaskIds :
       /\ tasks[t].op = "deleteEvent" /\ tasks[t].pc = "done"
       /\ tasks[t].answers = <<[ok |-> FALSE, error |-> NotFound]>>
       /\ tasks[t].error.type = "not_found_error"

\* The required fields of a createEvent request that are missing (undefined,
\* null or the empty string), in the order summary, start, end.
MissingRequired(params) ==
  SelectSeq(<<"summary", "start", "end">>,
            LAMBDA name : params[name] \in {Undefined, JsNull, ""})

\* C13: createEvent with summary, start or end missing rejects with a
\* validation_error whose detail.field is the first missing field in the
\* order summary, start, end.
C13_RequiredFields ==
  \A t \in TaskIds :
    (tasks[t].op = "createEvent" /\ MissingRequired(tasks[t].params) # <<>>) =>
      /\ tasks[t].pc = "done"
      /\ tasks[t].settled = "rejected"
      /\ tasks[t].error.type = "validation_error"
      /\ tasks[t].error.details.field = MissingRequired(tasks[t].params)[1]

\* C13 witness: summary present, start empty and end null: start is named.
C13_Witness ==
  \E t \in TaskIds :
    /\ tasks[t].op = "createEvent"
    /\ tasks[t].params.summary = "S"
    /\ MissingRequired(tasks[t].params) = <<"start", "end">>
    /\ tasks[t].error.details.field = "start"

\* The date fields and the required fields of the handlers that validate
\* dates, in the order the handler checks them; the date fields of a request
\* that carry a non-empty value that is no timestamp.
DateFields(op) ==
  CASE op = "listEvents" -> <<"timeMin", "timeMax">>
    [] op \in {"createEvent", "updateEvent"} -> <<"start", "end">>
    [] OTHER -> <<>>
RequiredOf(op) ==
  CASE op = "createEvent" -> <<"summary", "start", "end">>
    [] op = "listEvents" -> <<"timeMin", "timeMax">>
    [] OTHER -> <<"eventId">>
Supplied(v) == v \notin {Undefined, JsNull, ""}
InvalidDates(op, params) ==
  SelectSeq(DateFields(op), LAMBDA name : Supplied(params[name]) /\ ~ParsesAsDate(params[name]))
MissingOf(op, params) ==
  SelectSeq(RequiredOf(op), LAMBDA name : ~Supplied(params[name]))

\* C14 as stated: every date field of createEvent, listEvents and updateEvent
\* that carries a value that is no timestamp makes the invocation reject with
\* a validation_error whose detail carries that field and that value.
C14_EveryInvalidDate ==
  \A t \in TaskIds :
    \A i \in 1..Len(InvalidDates(tasks[t].op, tasks[t].params)) :
      LET name == InvalidDates(tasks[t].op, tasks[t].params)[i] IN
      /\ tasks[t].settled = "rejected"
      /\ tasks[t].error.type = "validation_error"
      /\ tasks[t].error.details = [field |-> name, value |-> tasks[t].params[name]]

\* C14 as amended: when no required field of the request is missing, the
\* invocation rejects with a validation_error whose detail carries the first
\* date field, in the order the handler checks them, whose value is no
\* timestamp, and that value; a missing required field is reported instead
\* when there is one.
C14_FirstInvalidDate ==
  \A t \in TaskIds :
    InvalidDates(tasks[t].op, tasks[t].params) # <<>> =>
      LET name == InvalidDates(tasks[t].op, tasks[t].params)[1]
          missing == MissingOf(tasks[t].op, tasks[t].params)
      IN
      /\ tasks[t].pc = "done"
      /\ tasks[t].settled = "rejected"
      /\ tasks[t].error.type = "validation_error"
      /\ tasks[t].error.details =
           IF missing = <<>>
           THEN [field |-> name, value |-> tasks[t].params[name]]
           ELSE [field |-> missing[1]]

\* C14 witness: an updateEvent whose start and end are both no timestamps
\* has rejected naming start and its value.
C14_Witness ==
  \E t \in TaskIds :
    /\ tasks[t].op = "updateEvent"
    /\ InvalidDates(tasks[t].op, tasks[t].params) = <<"start", "end">>
    /\ tasks[t].params.eventId = "e1"
    /\ tasks[t].error.details = [field |-> "start", value |-> "not-a-date"]

\* A request that fails the validation of its handler.
FailsValidation(task) ==
  task.op # "none"
  /\ (MissingOf(task.op, task.params) # <<>> \/ InvalidDates(task.op, task.params) # <<>>)

\* C15: an invocation that fails validation has rejected with a
\* validation_error without resolving credentials (no mode selection, no
\* handshake, no handle) and without a provider call, and the step that
\* rejects it leaves the cached handle, the default calendar id and the
\* provider's events as they were.
C15_ValidationFirst ==
  /\ [](\A t \in TaskIds :
         FailsValidation(tasks[t]) =>
           /\ tasks[t].pc = "done"
           /\ tasks[t].error.type = "validation_error"
           /\ tasks[t].calls = <<>>
           /\ ~tasks[t].fetch
           /\ tasks[t].authMode = Undefined
           /\ tasks[t].handshake = Undefined
           /\ tasks[t].calendar = Null)
  /\ [][\A t \in TaskIds :
          (tasks[t].pc = "idle" /\ FailsValidation(tasks'[t])) =>
            UNCHANGED <<calendarClient, defaultCalendarId, events>>]_vars

\* C15 witness: a deleteEvent without an event id has rejected while a
\* configured calendar id was still to be read.
C15_Witness ==
  \E t \in TaskIds :
    /\ tasks[t].op = "deleteEvent"
    /\ FailsValidation(tasks[t])
    /\ tasks[t].settled = "rejected"
    /\ env.GOOGLE_CALENDAR_ID = "team"
    /\ defaultCalendarId = "primary"

\* The invocations of updateEvent that have issued their write: what they
\* read, and the body they wrote.
Wrote(t) == tasks[t].op = "updateEvent" /\ Len(tasks[t].calls) = 2
ReadBy(t) == tasks[t].answers[1].data
WrittenBy(t) == tasks[t].calls[2].requestBody
EmailsOf(attendees) == [i \in 1..Len(attendees.items) |-> attendees.items[i].email]

\* C16: the body updateEvent writes carries, for every field the caller did
\* not supply, the value read, and for every field the caller supplied
\* (summary, description, location, start, end, attendees, timeZone) the
\* caller's value, a supplied time zone being that of the start or of the
\* end written; with only summary supplied, start, end, location,
\* description and attendees are those read.
C16_PartialMerge ==
  \A t \in TaskIds :
    Wrote(t) =>
      LET p == tasks[t].params
          read == ReadBy(t)
          written == WrittenBy(t)
      IN
      /\ \A name \in {"summary", "description", "location"} :
           written[name] = IF p[name] = Undefined THEN read[name] ELSE p[name]
      /\ IF p.start = Undefined THEN written.start.dateTime = read.start.dateTime
                                     /\ written.start.date = read.start.date
         ELSE written.start.dateTime = p.start
      /\ IF p.end = Undefined THEN written.end.dateTime = read.end.dateTime
                                   /\ written.end.date = read.end.date
         ELSE written.end.dateTime = p.end
      /\ IF p.attendees = NoAttendees THEN written.attendees = read.attendees
         ELSE EmailsOf(written.attendees) = p.attendees.emails
      /\ IF p.timeZone = Undefined
         THEN /\ p.start = Undefined => written.start.timeZone = read.start.timeZone
              /\ p.end = Undefined => written.end.timeZone = read.end.timeZone
         ELSE written.start.timeZone = p.timeZone \/ written.end.timeZone = p.timeZone

\* The event an invocation is about, and the invocations of deleteEvent
\* that ended after their pre-check read, without a delete call.
KeyOf(t) == <<tasks[t].calendarId, tasks[t].params.eventId>>
EndedAtPrecheck(t) ==
  tasks[t].op = "deleteEvent" /\ tasks[t].pc = "done" /\ Len(tasks[t].calls) = 1

\* C17: deleteEvent on an event id the resolved calendar does not hold
\* rejects, and unless the pre-check read itself failed (credentials rejected,
\* server error, no network) it rejects with a not_found_error whose message
\* names the event id and whose detail carries the eventId and the resolved
\* calendarId.
C17_DeleteMissing ==
  \A t \in TaskIds :
    (EndedAtPrecheck(t) /\ ~Live(KeyOf(t))) =>
      /\ tasks[t].settled = "rejected"
      /\ tasks[t].answers[1].error \notin ProviderFailures =>
           /\ tasks[t].answers[1].error = NotFound
           /\ tasks[t].error.type = "not_found_error"
           /\ tasks[t].error.message =
                "El evento con id '" \o tasks[t].params.eventId \o "' no existe en el calendario"
           /\ tasks[t].error.details =
                [eventId |-> tasks[t].params.eventId, calendarId |-> tasks[t].calendarId]

\* C17 witness: a deleteEvent on an id never created has rejected not-found.
C17_Witness ==
  \E t \in TaskIds :
    /\ EndedAtPrecheck(t)
    /\ tasks[t].params.eventId = "e2"
    /\ events[KeyOf(t)] = Absent
    /\ tasks[t].error.type = "not_found_error"
    /\ tasks[t].error.details = [eventId |-> "e2", calendarId |-> "primary"]

\* C18: a deleteEvent whose pre-check read found the event returns the
\* success acknowledgment once the provider has deleted it (and rejects only
\* when the delete call itself fails: credentials rejected, server error, no
\* network), and a getEvent on the same id and calendar invoked after that
\* deletion rejects, with a not_found_error unless its own read failed in
\* one of those ways.
C18_DeleteThenGet ==
  \A t \in TaskIds :
    tasks[t].pc = "done" =>
      /\ (tasks[t].op = "deleteEvent" /\ Len(tasks[t].answers) = 2) =>
           IF tasks[t].answers[2].ok
           THEN /\ tasks[t].settled = "fulfilled"
                /\ tasks[t].value.success = TRUE
                /\ tasks[t].value.message =
                     "Evento '" \o tasks[t].params.eventId \o "' eliminado correctamente"
                /\ events[KeyOf(t)] = Cancelled
           ELSE /\ tasks[t].settled = "rejected"
                /\ tasks[t].answers[2].error \in ProviderFailures
      /\ (tasks[t].op = "getEvent" /\ Len(tasks[t].answers) = 1
            /\ events[KeyOf(t)] = Cancelled) =>
           /\ tasks[t].settled = "rejected"
           /\ tasks[t].answers[1].error \notin ProviderFailures =>
                tasks[t].error.type = "not_found_error"

\* C18 witness: the event deleteEvent deleted is read again by getEvent, which
\* has rejected not-found.
C18_Witness ==
  \E t \in TaskIds :
    /\ tasks[t].pc = "done"
    /\ tasks[t].op = "getEvent"
    /\ tasks[t].params.eventId = "e1"
    /\ events[KeyOf(t)] = Cancelled
    /\ tasks[t].settled = "rejected"
    /\ tasks[t].error.type = "not_found_error"

\* The events createEvent returned that no update or delete has touched
\* since, and the invocations of getEvent that ended on one of them.
Untouched == {l \in ledger : ~l.touched}
ReadsBack(t, l) ==
  /\ tasks[t].pc = "done"
  /\ tasks[t].op = "getEvent"
  /\ Len(tasks[t].answers) = 1
  /\ KeyOf(t) = <<l.calendarId, l.id>>

\* C19: a getEvent on the id createEvent returned, in the same calendar and
\* with no update or delete of that event in between, returns (unless the
\* read itself fails: credentials rejected, server error, no network) an
\* event whose summary, start and end are the values given to createEvent
\* and whose id is non-empty and is the id createEvent returned.
C19_CreateThenGet ==
  \A t \in TaskIds : \A l \in Untouched :
    ReadsBack(t, l) =>
      IF tasks[t].answers[1].ok
      THEN /\ tasks[t].settled = "fulfilled"
           /\ tasks[t].value.summary = l.params.summary
           /\ tasks[t].value.start.dateTime = l.params.start
           /\ tasks[t].value.end.dateTime = l.params.end
           /\ tasks[t].value.id # ""
           /\ tasks[t].value.id = l.id
      ELSE /\ tasks[t].settled = "rejected"
           /\ tasks[t].answers[1].error \in ProviderFailures

\* C19 witness: the event created as "Demo" from T11 to T10 has been read back.
C19_Witness ==
  \E t \in TaskIds : \E l \in Untouched :
    /\ ReadsBack(t, l)
    /\ l.params.summary = "Demo"
    /\ tasks[t].settled = "fulfilled"
    /\ tasks[t].value.start.dateTime = T11
    /\ tasks[t].value.end.dateTime = T10

\* The responses that answer a handler that rejected.
AnswersFailure == http # NoReply /\ http.cause.settled = "rejected"

\* C20: on every REST route a handler failure of kind auth_error is answered
\* 401, not_found_error 404, and validation_error, google_api_error and
\* unknown_error 400; 500 answers only a failure that is no Normalized Error.
C20_StatusByKind ==
  AnswersFailure =>
    LET error == http.cause.error IN
    IF IsMCPCalendarError(error)
    THEN http.status = (CASE error.type = "auth_error" -> 401
                          [] error.type = "not_found_error" -> 404
                          [] OTHER -> 400)
    ELSE http.status = 500

\* The text of the global error handler.
GenericMessage == "Error interno del servidor"

\* C21: a REST response with status 500 carries a fixed generic message, the
\* same for every internal exception: no exception message reaches the client.
C21_GenericInternalError ==
  (http # NoReply /\ http.status = 500) => http.body.message = GenericMessage

\* The payloads flagged as errors, and the object a payload's text serializes.
Flagged(payload) == "isError" \in DOMAIN payload /\ payload.isError = TRUE
TextOf(payload) == payload.content[1].text.json
Carries(text, field, value, absent) ==
  IF value = absent THEN field \notin DOMAIN text
  ELSE field \in DOMAIN text /\ text[field] = value
Optional == {"summary", "description", "location", "status", "attendees"}

\* C22: a tool callback returns a payload flagged isError: true exactly when
\* its handler rejected, and the payload then carries the error's type,
\* message and details; when the handler returned, the payload has no error
\* flag and carries the serialized result; and every settled handler result
\* is answered by a payload the callback returns: the callback throws nothing.
C22_ToolPayload ==
  /\ [](toolResult # NoToolResult =>
          /\ Flagged(toolResult.payload) <=> toolResult.settled = "rejected"
          /\ Len(toolResult.payload.content) = 1
          /\ toolResult.payload.content[1].type = "text"
          /\ toolResult.settled = "rejected" =>
               /\ Carries(TextOf(toolResult.payload), "type", toolResult.error.type, Undefined)
               /\ Carries(TextOf(toolResult.payload), "message", toolResult.error.message,
                          Undefined)
               /\ Carries(TextOf(toolResult.payload), "details", toolResult.error.details,
                          NoDetails)
          /\ toolResult.settled = "fulfilled" =>
               /\ "isError" \notin DOMAIN toolResult.payload
               /\ DOMAIN TextOf(toolResult.payload) \subseteq DOMAIN toolResult.value
               /\ \A f \in DOMAIN toolResult.value :
                    IF f \in DOMAIN TextOf(toolResult.payload)
                    THEN TextOf(toolResult.payload)[f] = toolResult.value[f]
                    ELSE f \in Optional)
  /\ [][\A t \in TaskIds :
          (tasks[t].pc = "done" /\ tasks'[t].pc # "done") =>
            /\ toolResult'.settled = tasks[t].settled
            /\ toolResult'.error = tasks[t].error
            /\ toolResult'.value = tasks[t].value]_vars

\* C22 witness: one tool call has been answered with a flagged not_found_error
\* that carries its details.
C22_Witness ==
  /\ toolResult # NoToolResult
  /\ toolResult.settled = "rejected"
  /\ Flagged(toolResult.payload)
  /\ TextOf(toolResult.payload).type = "not_found_error"
  /\ "details" \in DOMAIN TextOf(toolResult.payload)

\* The provider methods an invocation called, in order.
MethodsOf(t) == [i \in 1..Len(tasks[t].calls) |-> tasks[t].calls[i].method]
Succeeded(t) == tasks[t].pc = "done" /\ tasks[t].settled = "fulfilled"

\* C23 as stated: a handler invocation that succeeds has issued exactly one
\* provider call, except deleteEvent, which has issued exactly two.
C23_OneCall ==
  \A t \in TaskIds :
    Succeeded(t) =>
      Len(tasks[t].calls) = (IF tasks[t].op = "deleteEvent" THEN 2 ELSE 1)

\* C23 amended: a handler invocation that succeeds has issued exactly one
\* provider call (createEvent one insert, getEvent one read, listEvents one
\* search), except updateEvent and deleteEvent, which have issued exactly two:
\* one read of the event, then the update or the delete.
C23_CallsPerHandler ==
  \A t \in TaskIds :
    Succeeded(t) =>
      MethodsOf(t) = (CASE tasks[t].op = "createEvent" -> <<"insert">>
                        [] tasks[t].op = "getEvent" -> <<"get">>
                        [] tasks[t].op = "listEvents" -> <<"list">>
                        [] tasks[t].op = "updateEvent" -> <<"get", "update">>
                        [] tasks[t].op = "deleteEvent" -> <<"get", "delete">>)

\* C23 witness: an updateEvent has succeeded after its read and its update.
C23_Witness ==
  \E t \in TaskIds :
    /\ Succeeded(t)
    /\ tasks[t].op = "updateEvent"
    /\ MethodsOf(t) = <<"get", "update">>

\* The failures an invocation met: of its handshake, and of its provider calls.
FailedAnswers(t) == {i \in 1..Len(tasks[t].answers) : ~tasks[t].answers[i].ok}
ExplicitNotFound(t) ==
  createNotFoundError(
    "El evento con id '" \o tasks[t].params.eventId \o "' no existe en el calendario",
    [eventId |-> tasks[t].params.eventId, calendarId |-> tasks[t].calendarId])

\* C24: nothing is retried. Within one invocation the handshake begins only
\* at the invocation's start and every provider call is answered once; once
\* the handshake has failed no provider call is issued, and a provider call
\* that failed is the last one issued; the invocation then rejects with the
\* normalized error of that failure (for the pre-check read of deleteEvent
\* answered 404, the explicit not_found_error of the same kind).
C24_NoRetry ==
  /\ [](\A t \in TaskIds :
          /\ Len(tasks[t].calls) =
               Len(tasks[t].answers) + (IF tasks[t].pc \in {"call1", "call2"} THEN 1 ELSE 0)
          /\ tasks[t].resolveErr # NoError =>
               /\ tasks[t].calls = <<>>
               /\ tasks[t].pc = "done" /\ tasks[t].settled = "rejected"
               /\ tasks[t].error = parseGoogleError(tasks[t].resolveErr)
          /\ \A i \in FailedAnswers(t) :
               /\ i = Len(tasks[t].calls)
               /\ tasks[t].pc = "done" /\ tasks[t].settled = "rejected"
               /\ IF tasks[t].op = "deleteEvent" /\ i = 1
                     /\ HasStatus(tasks[t].answers[i].error.response, 404)
                  THEN tasks[t].error = ExplicitNotFound(t)
                  ELSE tasks[t].error = parseGoogleError(tasks[t].answers[i].error))
  /\ [][\A t \in TaskIds :
          /\ tasks'[t].pc = "auth" => tasks[t].pc \in {"idle", "auth"}
          /\ (tasks[t].pc # "idle" /\ tasks'[t].pc # "idle") =>
               /\ Len(tasks'[t].calls) \in {Len(tasks[t].calls), Len(tasks[t].calls) + 1}
               /\ Len(tasks'[t].calls) > Len(tasks[t].calls) => FailedAnswers(t) = {}]_vars

\* C24 witness: an updateEvent whose read failed with a server error has
\* rejected with a google_api_error after that one call.
C24_Witness ==
  \E t \in TaskIds :
    /\ tasks[t].pc = "done"
    /\ tasks[t].op = "updateEvent"
    /\ Len(tasks[t].calls) = 1
    /\ FailedAnswers(t) = {1}
    /\ HasStatus(tasks[t].answers[1].error.response, 500)
    /\ tasks[t].error.type = "google_api_error"

\* The Normalized Error the handler of a route rejects with when validation
\* fails for these params, which the tool front end reports.
HandlerValidation(route, params) ==
  IF route = "POST /api/events" THEN createEventValidation(params)
  ELSE listEventsValidation(params)

\* C25: the REST error body is the handler's Normalized Error (type, message,
\* details), the one the tool front end reports for the same operation,
\* params and provider behaviour; in particular a create request with summary,
\* start or end missing and a list request with timeMin or timeMax missing
\* are answered with the field-naming validation_error of the handler.
C25_SameErrorBothFronts ==
  http # NoReply =>
    /\ http.cause.settled = "rejected" => http.body = toMCPError(http.cause.error)
    /\ http.cause.settled = "refused" =>
         /\ HandlerValidation(http.route, http.cause.params) # <<>>
         /\ http.body = toMCPError(HandlerValidation(http.route, http.cause.params)[1])

\* Two invocations of updateEvent on one event, both succeeded, the first
\* having supplied the summary only and the second the location only.
BothUpdated(t, u) ==
  /\ Succeeded(t) /\ Succeeded(u)
  /\ tasks[t].op = "updateEvent" /\ tasks[u].op = "updateEvent"
  /\ KeyOf(t) = KeyOf(u)
  /\ tasks[t].params.summary # Undefined /\ tasks[t].params.location = Undefined
  /\ tasks[u].params.location # Undefined /\ tasks[u].params.summary = Undefined

\* C26: when two updateEvent invocations on one event supply disjoint fields
\* and both succeed, however their reads and writes interleave, the event
\* carries both callers' values.
C26_DisjointUpdatesMerge ==
  \A t, u \in TaskIds :
    BothUpdated(t, u) =>
      /\ events[KeyOf(t)].summary = tasks[t].params.summary
      /\ events[KeyOf(t)].location = tasks[u].params.location

\* The invocations of updateEvent and deleteEvent, and the provider calls
\* that change the provider's events.
ReadsFirst(t) == tasks[t].op \in {"updateEvent", "deleteEvent"}
Mutating == {"insert", "update", "delete"}
MutatingCalls(t) == {i \in 1..Len(tasks[t].calls) : tasks[t].calls[i].method \in Mutating}

\* C27: updateEvent issues its write and deleteEvent its delete call only
\* after the read of the same event in the same invocation succeeded: the
\* first call is that read, a mutating call is the second and follows a
\* successful answer to the first; an invocation whose read failed, with a 404
\* or otherwise, has issued no mutating call, and the step in which the read
\* fails leaves the provider's events unchanged.
C27_ReadBeforeWrite ==
  /\ [](\A t \in TaskIds :
          ReadsFirst(t) =>
            /\ tasks[t].calls # <<>> =>
                 /\ tasks[t].calls[1].method = "get"
                 /\ tasks[t].calls[1].eventId = tasks[t].params.eventId
            /\ MutatingCalls(t) \subseteq {2}
            /\ 2 \in MutatingCalls(t) =>
                 /\ tasks[t].answers[1].ok
                 /\ tasks[t].calls[2].eventId = tasks[t].calls[1].eventId
                 /\ tasks[t].calls[2].calendarId = tasks[t].calls[1].calendarId
            /\ 1 \in FailedAnswers(t) => MutatingCalls(t) = {})
  /\ [][\A t \in TaskIds :
          (ReadsFirst(t) /\ tasks[t].pc = "call1" /\ tasks'[t].pc = "done") =>
            events' = events]_vars

\* C27 witness: the read of an updateEvent was answered 404: the invocation
\* has ended without a write and the event is still absent.
C27_Witness ==
  \E t \in TaskIds :
    /\ tasks[t].pc = "done"
    /\ tasks[t].op = "updateEvent"
    /\ FailedAnswers(t) = {1}
    /\ tasks[t].answers[1].error = NotFound
    /\ MutatingCalls(t) = {}
    /\ events[KeyOf(t)] = Absent

\* The invocations whose getCalendarClient() call failed, and the steps in
\* which one fails or one calls getCalendarClient().
ResolveFailed(task) == task.resolveErr # NoError
FailsNow(t) == ~ResolveFailed(tasks[t]) /\ ResolveFailed(tasks'[t])
CallsResolver(t) ==
  /\ tasks[t].pc = "idle"
  /\ tasks'[t].pc # "idle"
  /\ tasks'[t].calendarId # Undefined

\* C28: a getCalendarClient() call that fails leaves the cached handle null:
\* nothing is cached by the failing step, and the cached handle, when there
\* is one, is the handle a completed handshake returned; the next
\* getCalendarClient() call, finding no handle, reads the configuration,
\* selects the mode and runs the handshake again.
C28_FailureNotCached ==
  /\ [](calendarClient # Null => calendarClient = returned)
  /\ [][\A t \in TaskIds :
          /\ FailsNow(t) => (calendarClient = Null /\ calendarClient' = Null)
          /\ (CallsResolver(t) /\ calendarClient = Null) =>
               /\ tasks'[t].authMode = getAuthMode(env)
               /\ tasks'[t].handshake \in {"createServiceAccountClient", "createOAuth2Client"}
               /\ tasks'[t].calendar = Null
               /\ \/ tasks'[t].pc = "auth" /\ tasks'[t].fetch
                  \/ tasks'[t].pc = "done" /\ ResolveFailed(tasks'[t])]_vars

\* C28 witness: the first request failed for want of its key file; the
\* configuration was replaced, and the second request ran a handshake of its
\* own and holds the handle now cached.
C28_Witness ==
  /\ tasks[1].pc = "done"
  /\ ResolveFailed(tasks[1])
  /\ tasks[1].cfg.GOOGLE_SERVICE_ACCOUNT_KEY_FILE = "missing.json"
  /\ tasks[2].cfg # tasks[1].cfg
  /\ tasks[2].fetch
  /\ tasks[2].calendar # Null
  /\ tasks[2].calendar = calendarClient

\* C29: the handle of a handshake that was in flight when resetClient() was
\* called is not installed in the cache: the cached handle is never the one
\* such a handshake produced, so no later caller receives it.
C29_ResetDiscardsInFlight ==
  \A t \in TaskIds :
    (tasks[t].resetDuring /\ tasks[t].calendar # Null) =>
      /\ calendarClient # tasks[t].calendar
      /\ \A u \in TaskIds \ {t} : tasks[u].calendar # tasks[t].calendar

\* The invocations of deleteEvent whose delete call the provider answered
\* with not-found: the event was removed after their pre-check read found it.
LostRace(t) ==
  /\ tasks[t].op = "deleteEvent"
  /\ tasks[t].pc = "done"
  /\ Len(tasks[t].answers) = 2
  /\ ~tasks[t].answers[2].ok
  /\ tasks[t].answers[2].error = NotFound

\* C30: a deleteEvent whose target is removed between its pre-check read and
\* its delete call rejects with the explicit not_found_error of the pre-check,
\* naming eventId and calendarId in its detail; and of two concurrent
\* deleteEvent invocations on one existing event at most one returns success.
C30_DeleteRace ==
  /\ \A t \in TaskIds :
       LostRace(t) => (tasks[t].settled = "rejected" /\ tasks[t].error = ExplicitNotFound(t))
  /\ \A t, u \in TaskIds :
       (t # u /\ Succeeded(t) /\ Succeeded(u)
        /\ tasks[t].op = "deleteEvent" /\ tasks[u].op = "deleteEvent") =>
         KeyOf(t) # KeyOf(u)

====
